---- MODULE Spec2Model ----
(***************************************************************************)
(* RunPodPy: a command-line client that creates, starts, stops, destroys   *)
(* and lists GPU pods through a remote GraphQL API.                        *)
(*                                                                         *)
(* The model follows one invocation at a time.  An invocation is either a  *)
(* command of the CLI (run_command followed by a handler of cli.py) or a   *)
(* direct call of a method of the RunPod client (runpod.py).  Every await  *)
(* of a remote round trip is one step; the remote's answer is drawn from   *)
(* the classes the code distinguishes.  The remote keeps the listing of    *)
(* the caller's pods and the pods it has accepted but not yet published.   *)
(***************************************************************************)
EXTENDS Integers, Sequences, FiniteSets, TLC

\* ------------------------------------------------------------------------
\* Bounds of the model
\* ------------------------------------------------------------------------
MaxPods == 2
MaxCalls == 2
MaxPolls == 3
MaxTypes == 2

\* ------------------------------------------------------------------------
\* Values
\* ------------------------------------------------------------------------
\* Python's None where a pod id is expected
NoPod == 0

\* the ids a caller may name: the pods of the account, and the first pod a
\* creation adds
TargetIds == 1 .. (MaxPods + 1)

\* GPUTypeId.RTX_3080_TI and its value
RTX_3080_TI == "RTX_3080_TI"
RTX_3080_TI_value == "NVIDIA GeForce RTX 3080 Ti"

\* the phrases the client looks for in the message of a remote error; a
\* message is modelled by the set of these phrases it contains
PhraseOutbid == "outbid"
PhraseNotExited == "Cannot resume a pod that is not in exited state"
Phrases == {PhraseOutbid, PhraseNotExited}

\* `sub in message`
Contains(message, sub) == sub \in message

\* ------------------------------------------------------------------------
\* Answers of the remote.  class is "ok" (session.execute returned data) or
\* the exception gql raised.  code and message are errors[0]'s
\* extensions.code and message; id and status are the fields of the data
\* the callers read (id, and desiredStatus / podType / myself.id), gpu is
\* machine.gpuDisplayName.  For gpuTypes queries flag is secureCloud or
\* communityCloud of the first entry and price its lowestPrice field, and
\* items are the entries of the whole listing.
\* ------------------------------------------------------------------------
\* Python's None where a price is expected
NoPrice == -1

Resp(class, code, message, id, status, gpu) ==
    [class |-> class, code |-> code, message |-> message, id |-> id,
     status |-> status, gpu |-> gpu, flag |-> FALSE, price |-> NoPrice, items |-> <<>>]

Ok(id, status) == Resp("ok", "", {}, id, status, "")
OkPod(id, podType, gpu) == Resp("ok", "", {}, id, podType, gpu)
QueryError(code, message) == Resp("TransportQueryError", code, message, NoPod, "", "")
ServerError == Resp("TransportServerError", "", {}, NoPod, "", "")
NoResp == Resp("", "", {}, NoPod, "", "")

NotFoundError == QueryError("INTERNAL_SERVER_ERROR", {})
OutbidError == QueryError("BAD_USER_INPUT", {PhraseOutbid})
NotExitedError == QueryError("BAD_USER_INPUT", {PhraseNotExited})
OtherQueryError == QueryError("GRAPHQL_VALIDATION_FAILED", {})

\* a transport or query fault that can hit any request
Faults == {OtherQueryError, ServerError}

\* ------------------------------------------------------------------------
\* Values a client method hands back: a return value or a raised exception
\* ------------------------------------------------------------------------
NonePod == [podId |-> NoPod, spot |-> FALSE, gpuDisplayName |-> "None"]

RunPodInstance(podId, spot, gpuDisplayName) ==
    [podId |-> podId, spot |-> spot, gpuDisplayName |-> gpuDisplayName]

Ret(tag, p, b) == [exc |-> "none", tag |-> tag, pod |-> p, val |-> b, items |-> <<>>]
RetNone == Ret("None", NonePod, FALSE)
RetPod(p) == Ret("pod", p, FALSE)
RetBool(b) == Ret("bool", NonePod, b)
Raise(e) == [exc |-> e, tag |-> "None", pod |-> NonePod, val |-> FALSE, items |-> <<>>]
\* a list, a table or another value handed back
RetItems(tag, items) == [Ret(tag, NonePod, FALSE) EXCEPT !.items = items]

\* ------------------------------------------------------------------------
\* The trace of one invocation: remote operations and log lines, in order
\* ------------------------------------------------------------------------
Op(name, podId, resp) == [kind |-> "op", name |-> name, pod |-> podId, resp |-> resp]
Log(msg, podId) == [kind |-> "log", name |-> msg, pod |-> podId, resp |-> NoResp]

\* ------------------------------------------------------------------------
\* RunPod client methods: what each makes of the remote's answer
\* ------------------------------------------------------------------------

\* GPUTypeId: the member names of the enumeration
GPUTypeId ==
    {"RTX_A4000", "RTX_A4500", "RTX_A5000", "RTX_A6000", "A100_80GB", "A40",
     "RTX_3070", "RTX_3080", RTX_3080_TI, "RTX_3090", "V100_FHHL", "V100_SXM2",
     "TESLA_V100"}

\* the value of each member: the id the remote knows the GPU type by
GPUTypeValue(m) ==
    CASE m = "RTX_A4000" -> "NVIDIA RTX A4000"
      [] m = "RTX_A4500" -> "NVIDIA RTX A4500"
      [] m = "RTX_A5000" -> "NVIDIA RTX A5000"
      [] m = "RTX_A6000" -> "NVIDIA RTX A6000"
      [] m = "A100_80GB" -> "NVIDIA A100 80GB PCIe"
      [] m = "A40" -> "NVIDIA A40"
      [] m = "RTX_3070" -> "NVIDIA GeForce RTX 3070"
      [] m = "RTX_3080" -> "NVIDIA GeForce RTX 3080"
      [] m = "RTX_3080_TI" -> "NVIDIA GeForce RTX 3080 Ti"
      [] m = "RTX_3090" -> "NVIDIA GeForce RTX 3090"
      [] m = "V100_FHHL" -> "Tesla V100-FHHL-16GB"
      [] m = "V100_SXM2" -> "Tesla V100-SXM2-16GB"
      [] m = "TESLA_V100" -> "Tesla V100-PCIE-16GB"

GPUTypeValues == {GPUTypeValue(m) : m \in GPUTypeId}

\* words joined by spaces, and by underscores, as sequences of words and
\* separators
Spaced(words) ==
    [i \in 1 .. (2 * Len(words) - 1) |-> IF i % 2 = 1 THEN words[(i + 1) \div 2] ELSE " "]
Underscored(words) ==
    [i \in 1 .. (2 * Len(words) - 1) |-> IF i % 2 = 1 THEN words[(i + 1) \div 2] ELSE "_"]

\* the machine.gpuDisplayName strings the remote reports in this model
DisplayNames == {"RTX 3080 Ti", "RTX A4000", "A100 80GB", "H100 PCIe"}

\* the strings a lookup is given in this model: the values and the names
\* of the members, the display names, and strings that are none of these
GPUStrings ==
    GPUTypeValues \cup GPUTypeId \cup DisplayNames \cup {"NVIDIA H100 PCIe", "rtx 3080 ti", ""}

\* a string as the sequence of its words and separators
Spelling(s) ==
    CASE s = "NVIDIA RTX A4000" -> Spaced(<<"NVIDIA", "RTX", "A4000">>)
      [] s = "NVIDIA RTX A4500" -> Spaced(<<"NVIDIA", "RTX", "A4500">>)
      [] s = "NVIDIA RTX A5000" -> Spaced(<<"NVIDIA", "RTX", "A5000">>)
      [] s = "NVIDIA RTX A6000" -> Spaced(<<"NVIDIA", "RTX", "A6000">>)
      [] s = "NVIDIA A100 80GB PCIe" -> Spaced(<<"NVIDIA", "A100", "80GB", "PCIe">>)
      [] s = "NVIDIA A40" -> Spaced(<<"NVIDIA", "A40">>)
      [] s = "NVIDIA GeForce RTX 3070" -> Spaced(<<"NVIDIA", "GeForce", "RTX", "3070">>)
      [] s = "NVIDIA GeForce RTX 3080" -> Spaced(<<"NVIDIA", "GeForce", "RTX", "3080">>)
      [] s = "NVIDIA GeForce RTX 3080 Ti" -> Spaced(<<"NVIDIA", "GeForce", "RTX", "3080", "Ti">>)
      [] s = "NVIDIA GeForce RTX 3090" -> Spaced(<<"NVIDIA", "GeForce", "RTX", "3090">>)
      [] s = "Tesla V100-FHHL-16GB" -> Spaced(<<"Tesla", "V100-FHHL-16GB">>)
      [] s = "Tesla V100-SXM2-16GB" -> Spaced(<<"Tesla", "V100-SXM2-16GB">>)
      [] s = "Tesla V100-PCIE-16GB" -> Spaced(<<"Tesla", "V100-PCIE-16GB">>)
      [] s = "RTX_A4000" -> Underscored(<<"RTX", "A4000">>)
      [] s = "RTX_A4500" -> Underscored(<<"RTX", "A4500">>)
      [] s = "RTX_A5000" -> Underscored(<<"RTX", "A5000">>)
      [] s = "RTX_A6000" -> Underscored(<<"RTX", "A6000">>)
      [] s = "A100_80GB" -> Underscored(<<"A100", "80GB">>)
      [] s = "A40" -> Underscored(<<"A40">>)
      [] s = "RTX_3070" -> Underscored(<<"RTX", "3070">>)
      [] s = "RTX_3080" -> Underscored(<<"RTX", "3080">>)
      [] s = "RTX_3080_TI" -> Underscored(<<"RTX", "3080", "TI">>)
      [] s = "RTX_3090" -> Underscored(<<"RTX", "3090">>)
      [] s = "V100_FHHL" -> Underscored(<<"V100", "FHHL">>)
      [] s = "V100_SXM2" -> Underscored(<<"V100", "SXM2">>)
      [] s = "TESLA_V100" -> Underscored(<<"TESLA", "V100">>)
      [] s = "RTX 3080 Ti" -> Spaced(<<"RTX", "3080", "Ti">>)
      [] s = "RTX A4000" -> Spaced(<<"RTX", "A4000">>)
      [] s = "A100 80GB" -> Spaced(<<"A100", "80GB">>)
      [] s = "H100 PCIe" -> Spaced(<<"H100", "PCIe">>)
      [] s = "NVIDIA H100 PCIe" -> Spaced(<<"NVIDIA", "H100", "PCIe">>)
      [] s = "rtx 3080 ti" -> Spaced(<<"rtx", "3080", "ti">>)
      [] s = "" -> <<>>

\* str.upper on a word; the words not listed have no lower-case letter
Upper(w) ==
    CASE w = "Ti" -> "TI"
      [] w = "ti" -> "TI"
      [] w = "rtx" -> "RTX"
      [] w = "GeForce" -> "GEFORCE"
      [] w = "Tesla" -> "TESLA"
      [] w = "PCIe" -> "PCIE"
      [] OTHER -> w

\* s.replace(" ", "_").upper()
ReplaceUpper(s) ==
    [i \in DOMAIN Spelling(s) |->
        IF Spelling(s)[i] = " " THEN "_" ELSE Upper(Spelling(s)[i])]

\* GPUTypeId(s): the member whose value is s, "ValueError" when there is none
GPUTypeIdByValue(s) ==
    LET hits == {m \in GPUTypeId : GPUTypeValue(m) = s}
    IN IF hits # {} THEN CHOOSE m \in hits : TRUE ELSE "ValueError"

\* from_gpuDisplayName looking the string up among the values
from_gpuDisplayName_byvalue(s) == GPUTypeIdByValue(s)

\* GPUTypeId.from_gpuDisplayName: getattr by member name, "ValueError" when
\* there is no such member
from_gpuDisplayName(s) ==
    LET hits == {m \in GPUTypeId : Spelling(m) = ReplaceUpper(s)}
    IN IF hits # {} THEN CHOOSE m \in hits : TRUE ELSE "ValueError"

\* the pod with "unknown" for a display name that is not a member's
PodFromData_unknown(id, podType, gpu) ==
    RunPodInstance(id, podType = "INTERRUPTABLE",
                   IF from_gpuDisplayName(gpu) = "ValueError" THEN "unknown"
                   ELSE from_gpuDisplayName(gpu))

\* the pod built from the data of a lookup or of one entry of the listing;
\* "None" is Python's None
PodFromData(id, podType, gpu) ==
    RunPodInstance(id, podType = "INTERRUPTABLE",
                   IF from_gpuDisplayName(gpu) = "ValueError" THEN "None"
                   ELSE from_gpuDisplayName(gpu))

\* get_pod_by_id taking every query error for not-found
get_pod_by_id_swallow(podId, resp) ==
    CASE resp.class = "ok" -> RetPod(PodFromData(resp.id, resp.status, resp.gpu))
      [] resp.class = "TransportQueryError" -> RetNone
      [] resp.class = "TransportServerError" -> Raise("RunPodException")

get_pod_by_id(podId, resp) ==
    CASE resp.class = "ok" -> RetPod(PodFromData(resp.id, resp.status, resp.gpu))
      [] resp.class = "TransportQueryError" ->
            IF resp.code = "INTERNAL_SERVER_ERROR"
            THEN RetNone
            ELSE Raise("RunPodException")
      [] resp.class = "TransportServerError" -> Raise("RunPodException")

\* test_connection taking every answered query for a connection
test_connection_any(resp) ==
    CASE resp.class = "ok" -> RetBool(resp.status # "None")
      [] OTHER -> RetBool(FALSE)

test_connection(resp) ==
    CASE resp.class = "ok" ->
            IF resp.status = "None" THEN RetBool(FALSE)
            ELSE RetBool(resp.status # "guest")
      [] OTHER -> RetBool(FALSE)

\* stop_instance without the comparison of the pod id
stop_instance_anyid(podId, resp) ==
    CASE resp.class = "ok" -> RetBool(resp.status = "EXITED")
      [] OTHER -> RetBool(FALSE)

stop_instance(podId, resp) ==
    CASE resp.class = "ok" -> RetBool(resp.id = podId /\ resp.status = "EXITED")
      [] OTHER -> RetBool(FALSE)

destroy_instance(podId, resp) ==
    CASE resp.class = "ok" -> RetBool(resp.status = "None")
      [] OTHER -> RetBool(FALSE)

start_spot_instance(podId, resp) ==
    CASE resp.class = "ok" -> RetBool(resp.id = podId /\ resp.status = "RUNNING")
      [] resp.class = "TransportQueryError" ->
            IF Contains(resp.message, PhraseNotExited) THEN RetBool(TRUE)
            ELSE IF Contains(resp.message, PhraseOutbid) THEN Raise("OutbidException")
            ELSE RetBool(FALSE)
      [] resp.class = "TransportServerError" -> RetBool(FALSE)

\* __start_on_demand_instance without the already-running case
start_on_demand_instance_strict(podId, resp) ==
    CASE resp.class = "ok" -> RetBool(resp.id = podId /\ resp.status = "RUNNING")
      [] resp.class = "TransportQueryError" ->
            IF Contains(resp.message, PhraseOutbid) THEN Raise("OutbidException")
            ELSE RetBool(FALSE)
      [] resp.class = "TransportServerError" -> RetBool(FALSE)

start_on_demand_instance(podId, resp) ==
    CASE resp.class = "ok" -> RetBool(resp.id = podId /\ resp.status = "RUNNING")
      [] resp.class = "TransportQueryError" ->
            IF Contains(resp.message, PhraseNotExited) THEN RetBool(TRUE)
            ELSE IF Contains(resp.message, PhraseOutbid) THEN Raise("OutbidException")
            ELSE RetBool(FALSE)
      [] resp.class = "TransportServerError" -> RetBool(FALSE)

\* the variables start_instance gives the mutation for the spot flag
StartParams(spot) ==
    IF spot THEN {"podId", "maxBid", "gpuCount"} ELSE {"podId", "gpuCount"}

\* the plain resume whatever the spot flag
StartMutation_plain(spot) == "podResume"

\* the mutation start_instance issues for the spot flag
StartMutation(spot) == IF spot THEN "podBidResume" ELSE "podResume"

start_instance(podId, spot, resp) ==
    IF spot THEN start_spot_instance(podId, resp)
    ELSE start_on_demand_instance(podId, resp)

\* get_on_demand_price: the price of the first entry when it is offered in
\* the secure cloud and has a price
get_on_demand_price(resp) ==
    CASE resp.class = "ok" ->
            IF resp.flag /\ resp.price # NoPrice THEN RetItems("float", <<resp.price>>)
            ELSE RetNone
      [] OTHER -> RetNone

\* get_current_bid: the same on communityCloud and minimumBidPrice
get_current_bid(resp) ==
    CASE resp.class = "ok" ->
            IF resp.flag /\ resp.price # NoPrice THEN RetItems("float", <<resp.price>>)
            ELSE RetNone
      [] OTHER -> RetNone

\* one entry of the gpuTypes listing: its id, and whether it has all its
\* fields ("full"), lacks memoryInGb ("no_memory") or has a null
\* lowestPrice ("null_price")
GpuInfo(id, shape) == [id |-> id, shape |-> shape]

\* building the tuple of one entry: "ok", or the exception the first
\* failing element raises
ParseGpuInfo(gpuInfo) ==
    IF GPUTypeIdByValue(gpuInfo.id) = "ValueError" THEN "ValueError"
    ELSE IF gpuInfo.shape = "no_memory" THEN "KeyError"
    ELSE IF gpuInfo.shape = "null_price" THEN "TypeError"
    ELSE "ok"

\* the loop of get_gpu_types: `except KeyError: continue`
RECURSIVE GpuTypesLoop(_, _)
GpuTypesLoop(types_data, gpu_types) ==
    IF types_data = <<>> THEN RetItems("list", gpu_types)
    ELSE LET parsed == ParseGpuInfo(Head(types_data))
         IN CASE parsed = "ok" ->
                    GpuTypesLoop(Tail(types_data),
                                 Append(gpu_types, GPUTypeIdByValue(Head(types_data).id)))
              [] parsed = "KeyError" -> GpuTypesLoop(Tail(types_data), gpu_types)
              [] OTHER -> Raise(parsed)

get_gpu_types(resp) ==
    CASE resp.class = "ok" -> GpuTypesLoop(resp.items, <<>>)
      [] OTHER -> RetItems("list", <<>>)

\* ------------------------------------------------------------------------
\* The four creation methods.  Each formats its mutation text from params
\* (a str.format over the placeholders), sends it, and reads the created
\* pod under dataKey from the answer.
\* ------------------------------------------------------------------------
CommonParams ==
    {"podName", "containerDiskSize", "volumeSize", "gpuCount", "gpuTypeId",
     "minVcpuCount", "minMemoryInGb", "cloudType"}

create_spot_instance ==
    [mutation |-> "podRentInterruptable",
     params |-> CommonParams \cup {"imageName", "volumePath", "args", "max_bid"},
     placeholders |-> CommonParams \cup {"imageName", "volumePath", "args", "max_bid", "templateId"},
     dataKey |-> "podRentInterruptable"]

create_spot_instance_from_template_id ==
    [mutation |-> "podRentInterruptable",
     params |-> CommonParams \cup {"templateId", "max_bid"},
     placeholders |-> CommonParams \cup {"templateId", "max_bid"},
     dataKey |-> "podRentInterruptable"]

create_on_demand_instance ==
    [mutation |-> "podFindAndDeployOnDemand",
     params |-> CommonParams \cup {"imageName", "volumePath", "args"},
     placeholders |-> CommonParams \cup {"imageName", "volumePath", "args"},
     dataKey |-> "podRentInterruptable"]

create_on_demand_instance_from_template_id ==
    [mutation |-> "podFindAndDeployOnDemand",
     params |-> CommonParams \cup {"templateId"},
     placeholders |-> CommonParams \cup {"templateId"},
     dataKey |-> "podRentInterruptable"]

\* the creation method create_instance / create_instance_from_template_id
\* dispatches to
CreateMethod(template, spot) ==
    IF template
    THEN IF spot THEN create_spot_instance_from_template_id
                 ELSE create_on_demand_instance_from_template_id
    ELSE IF spot THEN create_spot_instance ELSE create_on_demand_instance

\* "...".format(**params) raises KeyError for a placeholder params lacks,
\* before anything is sent
FormatOk(m) == m.placeholders \subseteq m.params

\* what the creation method makes of the answer to the mutation it sent
CreateResult(m, gpuTypeId, resp) ==
    CASE resp.class = "ok" ->
            IF m.dataKey = m.mutation
            THEN RetPod(RunPodInstance(resp.id, resp.status = "INTERRUPTABLE", gpuTypeId))
            ELSE Raise("KeyError")
      [] resp.class = "TransportQueryError" ->
            IF Contains(resp.message, PhraseOutbid) THEN Raise("OutbidException")
            ELSE RetNone
      [] resp.class = "TransportServerError" -> Raise("AttributeError")


\* get_pods requires its logger argument; a call that gives fewer positional
\* arguments than required raises TypeError before anything is sent
get_pods_required == <<"logger">>

CallOk(required, given) == Len(given) >= Len(required)

\* the arguments cli.start gives get_pods on the --all path
start_all_get_pods_args == <<>>

\* ------------------------------------------------------------------------
\* The remote: attributes of a pod as the remote reports them
\* ------------------------------------------------------------------------
PodTypeOf(id) == IF id % 2 = 1 THEN "INTERRUPTABLE" ELSE "RESERVED"
GpuOf(id) == IF id % 3 = 0 THEN "H100 PCIe" ELSE "RTX 3080 Ti"

\* podType the remote gives a pod created by a mutation
PodTypeFor(mutation) ==
    IF mutation = "podRentInterruptable" THEN "INTERRUPTABLE" ELSE "RESERVED"

Range(f) == {f[i] : i \in DOMAIN f}

Remove(seq, x) == SelectSeq(seq, LAMBDA y : y # x)

\* sequences over S without repetition, of length at most n
RECURSIVE InjSeqs(_, _)
InjSeqs(S, n) ==
    IF n = 0 THEN {<<>>}
    ELSE LET shorter == InjSeqs(S, n - 1)
         IN shorter \cup UNION {{Append(q, x) : x \in S \ Range(q)} : q \in shorter}

\* ------------------------------------------------------------------------
\* Invocations
\* ------------------------------------------------------------------------
Call(level, kind, apiKey, podId, all, spot, maxBid, podName, gpuSrc, cloudSrc, template) ==
    [level |-> level, kind |-> kind, apiKey |-> apiKey, podId |-> podId,
     all |-> all, spot |-> spot, maxBid |-> maxBid, podName |-> podName,
     gpuSrc |-> gpuSrc, cloudSrc |-> cloudSrc, template |-> template,
     arg |-> "", cliKeys |-> {}, fileKeys |-> {}]

NoCall == Call("", "", FALSE, NoPod, FALSE, FALSE, FALSE, FALSE, "", "", FALSE)

\* ------------------------------------------------------------------------
\* The configuration of a command.  A key is the dest of an argument; a
\* dotted key lies in the sub-configuration its head names.  The value of a
\* key is modelled by where it comes from: "cli" (given on the command
\* line), "default" (the parser's default), "file" (the YAML file) or
\* "absent" (the configuration has no such key).
\* ------------------------------------------------------------------------
ConfigKeys == {"max_bid", "cloudType", "machine.podName", "machine.gpuTypeId"}

\* arg_key.split('.')[0]
TopKey(k) == IF k \in {"machine.podName", "machine.gpuTypeId"} THEN "machine" ELSE k

\* config_builder: the parsed arguments, split on the dots
config_builder(cliKeys) ==
    [k \in ConfigKeys |-> IF k \in cliKeys THEN "cli" ELSE "default"]

\* dict.update giving way to what the configuration already holds from the
\* command line
update_keep_cli(config, fileKeys) ==
    [k \in ConfigKeys |->
        IF k \in fileKeys /\ config[k] # "cli" THEN "file" ELSE config[k]]

\* config.update(yaml.load(config_file)): every top-level key of the file
\* replaces the configuration's entry of that name, a sub-configuration as
\* a whole
update(config, fileKeys) ==
    [k \in ConfigKeys |->
        IF TopKey(k) \in {TopKey(f) : f \in fileKeys}
        THEN IF k \in fileKeys THEN "file" ELSE "absent"
        ELSE config[k]]

\* main, from config_builder to the table of commands
load_config(cliKeys, config_file, fileKeys) ==
    IF config_file THEN update(config_builder(cliKeys), fileKeys)
    ELSE config_builder(cliKeys)

\* where a configuration value comes from: argparse (a flag or its default,
\* converted by type=GPUTypeId / type=CloudType to an Enum member) or the
\* YAML file (a plain str)
ValueSources == {"argparse", "yaml"}

\* the commands of main's table, by the handler each names (terminate is
\* destroy, run and resume are start)
commands == {"stop", "destroy", "start", "create", "list"}

\* a command line without a command, and one whose command word is none of
\* the parser's choices
NoCommand == ""
UnknownWords == {"bogus"}

CliCalls ==
    {Call("cli", k, key, NoPod, FALSE, FALSE, FALSE, FALSE, "argparse", "argparse", FALSE) :
        k \in {NoCommand} \cup UnknownWords, key \in BOOLEAN}
    \cup
    {Call("cli", k, key, p, a, FALSE, FALSE, FALSE, "argparse", "argparse", FALSE) :
        k \in {"stop", "destroy"}, key \in BOOLEAN, p \in {NoPod} \cup TargetIds, a \in BOOLEAN}
    \cup
    {Call("cli", "start", key, p, a, sp, FALSE, FALSE, "argparse", "argparse", FALSE) :
        key \in BOOLEAN, p \in {NoPod} \cup TargetIds, a \in BOOLEAN, sp \in BOOLEAN}
    \cup
    {Call("cli", "create", c[1], NoPod, FALSE, c[2], c[3], c[4], g, cl, c[5]) :
        c \in BOOLEAN \X BOOLEAN \X BOOLEAN \X BOOLEAN \X BOOLEAN,
        g \in ValueSources, cl \in ValueSources}
    \cup
    {Call("cli", "list", key, NoPod, FALSE, FALSE, FALSE, FALSE, "argparse", "argparse", FALSE) :
        key \in BOOLEAN}

ApiCalls ==
    {Call("api", "get_pod_by_id", TRUE, p, FALSE, FALSE, FALSE, FALSE, "", "", FALSE) :
        p \in TargetIds}
    \cup
    {Call("api", "create_instance", TRUE, NoPod, FALSE, sp, TRUE, TRUE, "", "", FALSE) :
        sp \in BOOLEAN}
    \cup
    {Call("api", "create_instance_from_template_id", TRUE, NoPod, FALSE, sp, TRUE, TRUE, "", "", TRUE) :
        sp \in BOOLEAN}
    \cup
    {Call("api", "start_instance", TRUE, p, FALSE, sp, TRUE, FALSE, "", "", FALSE) :
        p \in TargetIds, sp \in BOOLEAN}
    \cup
    {Call("api", k, TRUE, NoPod, FALSE, FALSE, FALSE, FALSE, "", "", FALSE) :
        k \in {"test_connection", "get_pods", "get_gpu_types", "get_on_demand_price",
                "get_current_bid"}}
    \cup
    {Call("api", k, TRUE, p, FALSE, FALSE, FALSE, FALSE, "", "", FALSE) :
        k \in {"stop_instance", "destroy_instance"}, p \in TargetIds}
    \cup
    {[NoCall EXCEPT !.level = "api", !.kind = k, !.arg = s] :
        k \in {"GPUTypeId", "from_gpuDisplayName"}, s \in GPUStrings}
    \cup
    {[NoCall EXCEPT !.level = "main", !.kind = "load_config", !.cliKeys = c] :
        c \in SUBSET ConfigKeys}
    \cup
    {[NoCall EXCEPT !.level = "main", !.kind = "load_config", !.arg = "--config_file",
                    !.cliKeys = c, !.fileKeys = f] :
        c \in SUBSET ConfigKeys, f \in (SUBSET ConfigKeys) \ {{}}}

Calls == CliCalls \cup ApiCalls

\* ------------------------------------------------------------------------
\* Answers the remote can give to each operation
\* ------------------------------------------------------------------------
ConnAnswers == {Ok(NoPod, "user"), Ok(NoPod, "guest"), Ok(NoPod, "None")} \cup Faults
ListAnswers == {Ok(NoPod, "")} \cup Faults
StopAnswers(p) == {Ok(p, "EXITED"), Ok(p, "RUNNING"), Ok(NoPod, "EXITED")} \cup Faults
DestroyAnswers == {Ok(NoPod, "None")} \cup Faults
ResumeAnswers(p) ==
    {Ok(p, "RUNNING"), Ok(p, "EXITED"), Ok(NoPod, "RUNNING"), NotExitedError, OutbidError,
     QueryError("BAD_USER_INPUT", Phrases)} \cup Faults
CreateAnswers(p, mutation) ==
    {OkPod(p, PodTypeFor(mutation), "RTX 3080 Ti"), OutbidError} \cup Faults

\* a gpuTypes answer for one GPU type
SomePrice == 20
OkPrice(flag, price) == [Ok(NoPod, "") EXCEPT !.flag = flag, !.price = price]
PriceAnswers == {OkPrice(f, p) : f \in BOOLEAN, p \in {NoPrice, SomePrice}} \cup Faults

\* a gpuTypes answer for the whole listing, of at most MaxTypes entries
GpuInfos ==
    {GpuInfo(id, "full") : id \in {RTX_3080_TI_value, "NVIDIA A40", "NVIDIA H100 PCIe"}}
    \cup {GpuInfo("NVIDIA A40", shape) : shape \in {"no_memory", "null_price"}}
OkTypes(items) == [Ok(NoPod, "") EXCEPT !.items = items]
TypesAnswers ==
    {OkTypes(items) : items \in UNION {[1 .. n -> GpuInfos] : n \in 0 .. MaxTypes}} \cup Faults

\* ------------------------------------------------------------------------
\* State
\* ------------------------------------------------------------------------
VARIABLES
    remotePods,   \* the remote's listing of the caller's pods, in its order
    hidden,       \* pods the remote accepted and has not yet published
    calls,        \* invocations so far
    call,         \* the invocation in progress
    pc,           \* where it stands
    trace,        \* its remote operations and log lines, in order
    outcome,      \* "none" while it runs, "returned", or what it raised
    result,       \* what it returned
    pods,         \* the handler's `pods`
    idx,          \* position of the handler's `for pod in pods`
    pod,          \* the handler's or create_instance's `pod`
    polls,        \* not-found lookups of the creation loop, up to MaxPolls
    lastLookup    \* the last answer in the creation loop

vars == <<remotePods, hidden, calls, call, pc, trace, outcome, result, pods, idx,
          pod, polls, lastLookup>>

remote == <<remotePods, hidden>>
locals == <<pods, idx, pod, polls, lastLookup>>

LookupAnswers(p) ==
    IF p \in Range(remotePods)
    THEN {OkPod(p, PodTypeOf(p), GpuOf(p))} \cup Faults
    ELSE {NotFoundError} \cup Faults

\* get_pods handing back an empty list on a fault
get_pods_empty(resp) ==
    IF resp.class = "ok"
    THEN [exc |-> "none",
          pods |-> [i \in DOMAIN remotePods |->
                       PodFromData(remotePods[i], PodTypeOf(remotePods[i]), GpuOf(remotePods[i]))]]
    ELSE [exc |-> "none", pods |-> <<>>]

\* get_pods: the pods of the listing, in listing order
get_pods(resp) ==
    IF resp.class = "ok"
    THEN [exc |-> "none",
          pods |-> [i \in DOMAIN remotePods |->
                       PodFromData(remotePods[i], PodTypeOf(remotePods[i]), GpuOf(remotePods[i]))]]
    ELSE [exc |-> "RunPodException", pods |-> <<>>]

Init ==
    /\ remotePods \in InjSeqs(1 .. MaxPods, MaxPods)
    /\ hidden = {}
    /\ calls = 0
    /\ call = NoCall
    /\ pc = "idle"
    /\ trace = <<>>
    /\ outcome = "none"
    /\ result = RetNone
    /\ pods = <<>>
    /\ idx = 0
    /\ pod = NonePod
    /\ polls = 0
    /\ lastLookup = "none"

\* the invocation ends: it returned res, or raised exc
Finish(exc, res, tr) ==
    /\ pc' = "done"
    /\ outcome' = exc
    /\ result' = res
    /\ trace' = tr

\* the invocation goes on at position next
Goto(next, tr) ==
    /\ pc' = next
    /\ trace' = tr
    /\ UNCHANGED <<outcome, result>>

Invoke(c) ==
    /\ pc = "idle"
    /\ calls < MaxCalls
    /\ calls' = calls + 1
    /\ call' = c
    /\ pc' = IF c.level = "cli" THEN "main"
             ELSE IF c.kind = "create_instance_from_template_id" THEN "create_instance"
             ELSE c.kind
    /\ trace' = <<>>
    /\ outcome' = "none"
    /\ result' = RetNone
    /\ pods' = <<>>
    /\ idx' = 0
    /\ pod' = NonePod
    /\ polls' = 0
    /\ lastLookup' = "none"
    /\ UNCHANGED remote

\* the process of the invocation ends; the next one starts afresh
Exit ==
    /\ pc = "done"
    /\ calls < MaxCalls
    /\ pc' = "idle"
    /\ call' = NoCall
    /\ trace' = <<>>
    /\ outcome' = "none"
    /\ result' = RetNone
    /\ pods' = <<>>
    /\ idx' = 0
    /\ pod' = NonePod
    /\ polls' = 0
    /\ lastLookup' = "none"
    /\ UNCHANGED <<remote, calls>>

\* the remote publishes a pod it had accepted
Provision ==
    /\ \E p \in hidden :
         /\ hidden' = hidden \ {p}
         /\ remotePods' = Append(remotePods, p)
    /\ UNCHANGED <<calls, call, pc, trace, outcome, result, locals>>

\* main taking every command word outside its table for no command
main_anyword ==
    /\ pc = "main"
    /\ IF call.kind \in commands
       THEN Goto("run_command", trace)
       ELSE Finish("exit(1)", RetNone, Append(trace, Log("print_help", NoPod)))
    /\ UNCHANGED <<remote, calls, call, locals>>

\* __main__.main: the parser rejects a command word that is none of its
\* choices (parser.error: usage, exit status 2); a command of the table goes
\* to run_command; without a command main prints the help and exits
main ==
    /\ pc = "main"
    /\ IF call.kind \in UnknownWords
       THEN Finish("exit(2)", RetNone, Append(trace, Log("usage error", NoPod)))
       ELSE IF call.kind \in commands
            THEN Goto("run_command", trace)
       ELSE Finish("exit(1)", RetNone, Append(trace, Log("print_help", NoPod)))
    /\ UNCHANGED <<remote, calls, call, locals>>

\* __main__.run_command up to the call of the handler
\* run_command testing the connection before it looks for the API key
run_command_connect_first ==
    /\ pc = "run_command"
    /\ \E r \in ConnAnswers :
         LET tr == Append(trace, Op("test_connection", NoPod, r))
         IN IF ~call.apiKey THEN Finish("ValueError", RetNone, tr)
            ELSE IF test_connection(r).val
                 THEN Goto("handler", Append(tr, Log("Connected to runpod api", NoPod)))
                 ELSE Finish("exit(1)", RetNone, Append(tr, Log("Failed to connect to runpod", NoPod)))
    /\ UNCHANGED <<remote, calls, call, locals>>

run_command ==
    /\ pc = "run_command"
    /\ IF ~call.apiKey
       THEN Finish("ValueError", RetNone, trace)
       ELSE \E r \in ConnAnswers :
              LET tr == Append(trace, Op("test_connection", NoPod, r))
              IN IF test_connection(r).val
                 THEN Goto("handler", Append(tr, Log("Connected to runpod api", NoPod)))
                 ELSE Finish("exit(1)", RetNone, Append(tr, Log("Failed to connect to runpod", NoPod)))
    /\ UNCHANGED <<remote, calls, call, locals>>

\* ------------------------------------------------------------------------
\* cli.stop
\* ------------------------------------------------------------------------
\* cli.stop going on whatever test_connection answers
stop_begin_unchecked ==
    /\ pc = "handler" /\ call.kind = "stop"
    /\ \E r \in ConnAnswers :
         LET tr == Append(trace, Op("test_connection", NoPod, r))
         IN IF call.podId # NoPod THEN Goto("stop_one", tr)
            ELSE IF call.all THEN Goto("stop_list", Append(tr, Log("Stopping all pods", NoPod)))
            ELSE Finish("returned", RetNone, Append(tr, Log("No --podId or --all specified", NoPod)))
    /\ UNCHANGED <<remote, calls, call, locals>>

\* cli.stop taking the absence of both flags for --all
stop_begin_default_all ==
    /\ pc = "handler" /\ call.kind = "stop"
    /\ \E r \in ConnAnswers :
         LET tr == Append(trace, Op("test_connection", NoPod, r))
         IN IF ~test_connection(r).val THEN Finish("RunPodException", RetNone, tr)
            ELSE IF call.podId # NoPod THEN Goto("stop_one", tr)
            ELSE Goto("stop_list", Append(tr, Log("Stopping all pods", NoPod)))
    /\ UNCHANGED <<remote, calls, call, locals>>

stop_begin ==
    /\ pc = "handler" /\ call.kind = "stop"
    /\ \E r \in ConnAnswers :
         LET tr == Append(trace, Op("test_connection", NoPod, r))
         IN IF ~test_connection(r).val THEN Finish("RunPodException", RetNone, tr)
            ELSE IF call.podId # NoPod THEN Goto("stop_one", tr)
            ELSE IF call.all THEN Goto("stop_list", Append(tr, Log("Stopping all pods", NoPod)))
            ELSE Finish("returned", RetNone, Append(tr, Log("No --podId or --all specified", NoPod)))
    /\ UNCHANGED <<remote, calls, call, locals>>

stop_one ==
    /\ pc = "stop_one"
    /\ \E r \in StopAnswers(call.podId) :
         Finish("returned", RetNone,
                trace \o <<Op("podStop", call.podId, r), Log("Stopped pod", call.podId)>>)
    /\ UNCHANGED <<remote, calls, call, locals>>

stop_list ==
    /\ pc = "stop_list"
    /\ \E r \in ListAnswers :
         LET tr == Append(trace, Op("myPods", NoPod, r))
             got == get_pods(r)
         IN IF got.exc # "none"
            THEN Finish(got.exc, RetNone, tr) /\ UNCHANGED <<pods, idx>>
            ELSE /\ pods' = got.pods
                 /\ idx' = 1
                 /\ IF got.pods = <<>>
                    THEN Finish("returned", RetNone, Append(tr, Log("DONE | Stopped all pods", NoPod)))
                    ELSE Goto("stop_each", tr)
    /\ UNCHANGED <<remote, calls, call, pod, polls, lastLookup>>

\* the loop of stop --all giving up at the first stop the remote fails
stop_each_abort ==
    /\ pc = "stop_each"
    /\ \E r \in StopAnswers(pods[idx].podId) :
         LET tr == trace \o <<Op("podStop", pods[idx].podId, r),
                              Log("Stopped pod", pods[idx].podId)>>
         IN IF idx = Len(pods) \/ ~stop_instance(pods[idx].podId, r).val
            THEN Finish("returned", RetNone, Append(tr, Log("DONE | Stopped all pods", NoPod)))
            ELSE Goto("stop_each", tr)
    /\ idx' = idx + 1
    /\ UNCHANGED <<remote, calls, call, pods, pod, polls, lastLookup>>

stop_each ==
    /\ pc = "stop_each"
    /\ \E r \in StopAnswers(pods[idx].podId) :
         LET tr == trace \o <<Op("podStop", pods[idx].podId, r),
                              Log("Stopped pod", pods[idx].podId)>>
         IN IF idx = Len(pods)
            THEN Finish("returned", RetNone, Append(tr, Log("DONE | Stopped all pods", NoPod)))
            ELSE Goto("stop_each", tr)
    /\ idx' = idx + 1
    /\ UNCHANGED <<remote, calls, call, pods, pod, polls, lastLookup>>

stop == stop_begin \/ stop_one \/ stop_list \/ stop_each

\* ------------------------------------------------------------------------
\* cli.destroy
\* ------------------------------------------------------------------------
\* the remote drops a pod whose termination it confirmed
Terminated(podId, r) ==
    IF r.class = "ok" THEN Remove(remotePods, podId) ELSE remotePods

\* destroy looking at --all before --podId
destroy_begin_all_first ==
    /\ pc = "handler" /\ call.kind = "destroy"
    /\ \E r \in ConnAnswers :
         LET tr == Append(trace, Op("test_connection", NoPod, r))
         IN IF ~test_connection(r).val THEN Finish("RunPodException", RetNone, tr)
            ELSE IF call.all THEN Goto("destroy_list", Append(tr, Log("Destroying all pods", NoPod)))
            ELSE IF call.podId # NoPod THEN Goto("destroy_one", tr)
            ELSE Finish("returned", RetNone, Append(tr, Log("No --podId or --all specified", NoPod)))
    /\ UNCHANGED <<remote, calls, call, locals>>

destroy_begin ==
    /\ pc = "handler" /\ call.kind = "destroy"
    /\ \E r \in ConnAnswers :
         LET tr == Append(trace, Op("test_connection", NoPod, r))
         IN IF ~test_connection(r).val THEN Finish("RunPodException", RetNone, tr)
            ELSE IF call.podId # NoPod THEN Goto("destroy_one", tr)
            ELSE IF call.all THEN Goto("destroy_list", Append(tr, Log("Destroying all pods", NoPod)))
            ELSE Finish("returned", RetNone, Append(tr, Log("No --podId or --all specified", NoPod)))
    /\ UNCHANGED <<remote, calls, call, locals>>

destroy_one ==
    /\ pc = "destroy_one"
    /\ \E r \in DestroyAnswers :
         /\ Finish("returned", RetNone,
                   trace \o <<Op("podTerminate", call.podId, r), Log("Destroyed pod", call.podId)>>)
         /\ remotePods' = Terminated(call.podId, r)
    /\ UNCHANGED <<hidden, calls, call, locals>>

destroy_list ==
    /\ pc = "destroy_list"
    /\ \E r \in ListAnswers :
         LET tr == Append(trace, Op("myPods", NoPod, r))
             got == get_pods(r)
         IN IF got.exc # "none"
            THEN Finish(got.exc, RetNone, tr) /\ UNCHANGED <<pods, idx>>
            ELSE /\ pods' = got.pods
                 /\ idx' = 1
                 /\ IF got.pods = <<>>
                    THEN Finish("returned", RetNone, Append(tr, Log("DONE | Destroyed all pods", NoPod)))
                    ELSE Goto("destroy_each", tr)
    /\ UNCHANGED <<remote, calls, call, pod, polls, lastLookup>>

\* the loop of destroy --all giving up at the first terminate that fails
destroy_each_abort ==
    /\ pc = "destroy_each"
    /\ \E r \in DestroyAnswers :
         LET tr == trace \o <<Op("podTerminate", pods[idx].podId, r),
                              Log("Destroyed pod", pods[idx].podId)>>
         IN /\ IF idx = Len(pods) \/ ~destroy_instance(pods[idx].podId, r).val
               THEN Finish("returned", RetNone, Append(tr, Log("DONE | Destroyed all pods", NoPod)))
               ELSE Goto("destroy_each", tr)
            /\ remotePods' = Terminated(pods[idx].podId, r)
    /\ idx' = idx + 1
    /\ UNCHANGED <<hidden, calls, call, pods, pod, polls, lastLookup>>

destroy_each ==
    /\ pc = "destroy_each"
    /\ \E r \in DestroyAnswers :
         LET tr == trace \o <<Op("podTerminate", pods[idx].podId, r),
                              Log("Destroyed pod", pods[idx].podId)>>
         IN /\ IF idx = Len(pods)
               THEN Finish("returned", RetNone, Append(tr, Log("DONE | Destroyed all pods", NoPod)))
               ELSE Goto("destroy_each", tr)
            /\ remotePods' = Terminated(pods[idx].podId, r)
    /\ idx' = idx + 1
    /\ UNCHANGED <<hidden, calls, call, pods, pod, polls, lastLookup>>

destroy == destroy_begin \/ destroy_one \/ destroy_list \/ destroy_each

\* ------------------------------------------------------------------------
\* cli.start
\* ------------------------------------------------------------------------
start_begin ==
    /\ pc = "handler" /\ call.kind = "start"
    /\ \E r \in ConnAnswers :
         LET tr == Append(trace, Op("test_connection", NoPod, r))
         IN IF ~test_connection(r).val THEN Finish("RunPodException", RetNone, tr)
            ELSE IF call.podId # NoPod THEN Goto("start_lookup", tr)
            ELSE IF call.all
                 THEN IF CallOk(get_pods_required, start_all_get_pods_args)
                      THEN Goto("start_list", Append(tr, Log("Starting all pods", NoPod)))
                      ELSE Finish("TypeError", RetNone, Append(tr, Log("Starting all pods", NoPod)))
            ELSE Finish("returned", RetNone, Append(tr, Log("No --podId or --all specified", NoPod)))
    /\ UNCHANGED <<remote, calls, call, locals>>

\* start resuming the named pod whatever the lookup found
start_lookup_resume_unfound ==
    /\ pc = "start_lookup"
    /\ \E r \in LookupAnswers(call.podId) :
         LET tr == Append(trace, Op("pod", call.podId, r))
             got == get_pod_by_id(call.podId, r)
         IN IF got.exc # "none" THEN Finish(got.exc, RetNone, tr) /\ pod' = pod
            ELSE IF got.tag = "None"
                 THEN Goto("start_resume", tr) /\ pod' = RunPodInstance(call.podId, FALSE, "None")
            ELSE Goto("start_resume", tr) /\ pod' = got.pod
    /\ UNCHANGED <<remote, calls, call, pods, idx, polls, lastLookup>>

start_lookup ==
    /\ pc = "start_lookup"
    /\ \E r \in LookupAnswers(call.podId) :
         LET tr == Append(trace, Op("pod", call.podId, r))
             got == get_pod_by_id(call.podId, r)
         IN IF got.exc # "none" THEN Finish(got.exc, RetNone, tr) /\ pod' = pod
            ELSE IF got.tag = "None"
                 THEN /\ Finish("returned", RetBool(FALSE), Append(tr, Log("Pod not found", call.podId)))
                      /\ pod' = pod
            ELSE Goto("start_resume", tr) /\ pod' = got.pod
    /\ UNCHANGED <<remote, calls, call, pods, idx, polls, lastLookup>>

\* start choosing the resume operation by the spot attribute of the fetched pod
start_resume_by_pod_spot ==
    /\ pc = "start_resume"
    /\ \E r \in ResumeAnswers(pod.podId) :
         LET tr == Append(trace, Op(StartMutation(pod.spot), pod.podId, r))
             got == start_instance(pod.podId, pod.spot, r)
         IN IF got.exc # "none" THEN Finish(got.exc, RetNone, tr)
            ELSE Finish("returned", RetNone, Append(tr, Log("Started pod", call.podId)))
    /\ UNCHANGED <<remote, calls, call, locals>>

start_resume ==
    /\ pc = "start_resume"
    /\ \E r \in ResumeAnswers(pod.podId) :
         LET tr == Append(trace, Op(StartMutation(call.spot), pod.podId, r))
             got == start_instance(pod.podId, call.spot, r)
         IN IF got.exc # "none" THEN Finish(got.exc, RetNone, tr)
            ELSE Finish("returned", RetNone, Append(tr, Log("Started pod", call.podId)))
    /\ UNCHANGED <<remote, calls, call, locals>>

start_list ==
    /\ pc = "start_list"
    /\ \E r \in ListAnswers :
         LET tr == Append(trace, Op("myPods", NoPod, r))
             got == get_pods(r)
         IN IF got.exc # "none"
            THEN Finish(got.exc, RetNone, tr) /\ UNCHANGED <<pods, idx>>
            ELSE /\ pods' = got.pods
                 /\ idx' = 1
                 /\ IF got.pods = <<>>
                    THEN Finish("returned", RetNone, Append(tr, Log("DONE | Started all pods", NoPod)))
                    ELSE Goto("start_each", tr)
    /\ UNCHANGED <<remote, calls, call, pod, polls, lastLookup>>

start_each ==
    /\ pc = "start_each"
    /\ \E r \in ResumeAnswers(pods[idx].podId) :
         LET tr == Append(trace, Op(StartMutation(call.spot), pods[idx].podId, r))
             got == start_instance(pods[idx].podId, call.spot, r)
             tl == Append(tr, Log("Started pod", pods[idx].podId))
         IN IF got.exc # "none" THEN Finish(got.exc, RetNone, tr)
            ELSE IF idx = Len(pods)
                 THEN Finish("returned", RetNone, Append(tl, Log("DONE | Started all pods", NoPod)))
            ELSE Goto("start_each", tl)
    /\ idx' = idx + 1
    /\ UNCHANGED <<remote, calls, call, pods, pod, polls, lastLookup>>

start == start_begin \/ start_lookup \/ start_resume

\* ------------------------------------------------------------------------
\* cli.create
\* ------------------------------------------------------------------------
\* a str has replace and upper, an Enum member has neither
HasStrMethods(src) == src = "yaml"

\* cli.create from GPUTypeId(...) to the try: what comes next
create_resolve(c) ==
    IF ~HasStrMethods(c.cloudSrc) THEN "AttributeError"
    ELSE IF ~c.maxBid THEN "return"
    ELSE "create_instance"

CreateResolved(tr) ==
    CASE create_resolve(call) = "AttributeError" -> Finish("AttributeError", RetNone, tr)
      [] create_resolve(call) = "return" ->
            Finish("returned", RetNone, Append(tr, Log("No --max_bid specified", NoPod)))
      [] OTHER -> Goto("create_instance", tr)

create_begin ==
    /\ pc = "handler" /\ call.kind = "create"
    /\ \E r \in ConnAnswers :
         LET tr == Append(trace, Op("test_connection", NoPod, r))
         IN IF ~test_connection(r).val THEN Finish("RunPodException", RetNone, tr)
            ELSE IF ~call.podName THEN Goto("create_name", tr)
            ELSE CreateResolved(tr)
    /\ UNCHANGED <<remote, calls, call, locals>>

create_name ==
    /\ pc = "create_name"
    /\ \E r \in ListAnswers :
         LET tr == Append(trace, Op("myPods", NoPod, r))
             got == get_pods(r)
         IN IF got.exc # "none" THEN Finish(got.exc, RetNone, tr) /\ pods' = pods
            ELSE /\ pods' = got.pods
                 /\ IF ~HasStrMethods(call.gpuSrc)
                    THEN Finish("AttributeError", RetNone, tr)
                    ELSE CreateResolved(tr)
    /\ UNCHANGED <<remote, calls, call, idx, pod, polls, lastLookup>>

\* cli.create without its `except OutbidException`
create_end_propagate(got, tr) ==
    IF got.exc # "none" THEN Finish(got.exc, RetNone, tr)
    ELSE IF got.tag = "None"
         THEN Finish("returned", RetNone, Append(tr, Log("Failed to create pod", NoPod)))
    ELSE Finish("returned", RetNone, Append(tr, Log("Created pod", got.pod.podId)))

\* what cli.create does with what create_instance handed back
create_end(got, tr) ==
    IF got.exc = "OutbidException"
    THEN Finish("returned", RetNone,
                tr \o <<Log("OutbidException", NoPod), Log("Failed to create pod", NoPod)>>)
    ELSE IF got.exc # "none" THEN Finish(got.exc, RetNone, tr)
    ELSE IF got.tag = "None"
         THEN Finish("returned", RetNone, Append(tr, Log("Failed to create pod", NoPod)))
    ELSE Finish("returned", RetNone, Append(tr, Log("Created pod", got.pod.podId)))

\* the caller of create_instance gets got
CreateReturn(got, tr) ==
    IF call.level = "cli" THEN create_end(got, tr)
    ELSE Finish(IF got.exc = "none" THEN "returned" ELSE got.exc, got, tr)

\* ------------------------------------------------------------------------
\* RunPod.create_instance and RunPod.create_instance_from_template_id
\* ------------------------------------------------------------------------
\* the id the remote gives the pod of this invocation
NewPodId == MaxPods + calls

\* up to `if pod is None: return None`
create_instance ==
    /\ pc = "create_instance"
    /\ LET m == CreateMethod(call.template, call.spot)
       IN IF ~FormatOk(m)
          THEN CreateReturn(Raise("KeyError"), trace) /\ UNCHANGED <<hidden, pod>>
          ELSE \E r \in CreateAnswers(NewPodId, m.mutation) :
                 LET tr == Append(trace, Op(m.mutation, NoPod, r))
                     got == CreateResult(m, RTX_3080_TI, r)
                 IN /\ hidden' = IF r.class = "ok" THEN hidden \cup {NewPodId} ELSE hidden
                    /\ IF got.exc = "none" /\ got.tag = "pod"
                       THEN Goto("poll", tr) /\ pod' = got.pod
                       ELSE CreateReturn(got, tr) /\ pod' = pod
    /\ UNCHANGED <<remotePods, calls, call, pods, idx, polls, lastLookup>>

\* the creation loop as an `if`: one lookup, then the pod is handed back
poll_once ==
    /\ pc = "poll"
    /\ \E r \in LookupAnswers(pod.podId) :
         LET got == get_pod_by_id(pod.podId, r)
             tr == Append(trace, Op("pod", pod.podId, r))
         IN IF got.exc # "none"
            THEN CreateReturn(got, tr) /\ lastLookup' = "raised" /\ polls' = polls
            ELSE IF got.tag = "None"
                 THEN /\ CreateReturn(RetPod(pod), tr)
                      /\ lastLookup' = "notfound"
                      /\ polls' = polls + 1
            ELSE CreateReturn(RetPod(pod), tr) /\ lastLookup' = "found" /\ polls' = polls
    /\ UNCHANGED <<remote, calls, call, pods, idx, pod>>

\* the creation loop with a limit of MaxPolls attempts, then None
poll_bounded ==
    /\ pc = "poll"
    /\ \E r \in LookupAnswers(pod.podId) :
         LET got == get_pod_by_id(pod.podId, r)
             tr == Append(trace, Op("pod", pod.podId, r))
         IN IF got.exc # "none"
            THEN CreateReturn(got, tr) /\ lastLookup' = "raised" /\ polls' = polls
            ELSE IF got.tag = "None"
                 THEN /\ IF polls + 1 >= MaxPolls
                         THEN CreateReturn(RetNone, tr)
                         ELSE Goto("poll", tr)
                      /\ lastLookup' = "notfound"
                      /\ polls' = polls + 1
            ELSE CreateReturn(RetPod(pod), tr) /\ lastLookup' = "found" /\ polls' = polls
    /\ UNCHANGED <<remote, calls, call, pods, idx, pod>>

\* the creation loop terminating the pod it created when a lookup raises
poll_rollback ==
    /\ pc = "poll"
    /\ \E r \in LookupAnswers(pod.podId) :
         LET got == get_pod_by_id(pod.podId, r)
             tr == IF got.exc = "none" /\ got.tag = "None" /\ polls >= MaxPolls
                   THEN trace
                   ELSE Append(trace, Op("pod", pod.podId, r))
         IN IF got.exc # "none"
            THEN /\ CreateReturn(got, Append(tr, Op("podTerminate", pod.podId, Ok(NoPod, "None"))))
                 /\ lastLookup' = "raised" /\ polls' = polls
                 /\ hidden' = hidden \ {pod.podId}
                 /\ remotePods' = Remove(remotePods, pod.podId)
            ELSE /\ UNCHANGED remote
                 /\ IF got.tag = "None"
                    THEN /\ Goto("poll", tr)
                         /\ lastLookup' = "notfound"
                         /\ polls' = IF polls < MaxPolls THEN polls + 1 ELSE polls
                    ELSE CreateReturn(RetPod(pod), tr) /\ lastLookup' = "found" /\ polls' = polls
    /\ UNCHANGED <<calls, call, pods, idx, pod>>

\* one get_pod_by_id of `while pod_ is None`, with the sleep before the next;
\* the trace keeps the first MaxPolls not-found lookups
poll ==
    /\ pc = "poll"
    /\ \E r \in LookupAnswers(pod.podId) :
         LET got == get_pod_by_id(pod.podId, r)
             tr == IF got.exc = "none" /\ got.tag = "None" /\ polls >= MaxPolls
                   THEN trace
                   ELSE Append(trace, Op("pod", pod.podId, r))
         IN IF got.exc # "none"
            THEN CreateReturn(got, tr) /\ lastLookup' = "raised" /\ polls' = polls
            ELSE IF got.tag = "None"
                 THEN /\ Goto("poll", tr)
                      /\ lastLookup' = "notfound"
                      /\ polls' = IF polls < MaxPolls THEN polls + 1 ELSE polls
            ELSE CreateReturn(RetPod(pod), tr) /\ lastLookup' = "found" /\ polls' = polls
    /\ UNCHANGED <<remote, calls, call, pods, idx, pod>>

create == create_begin \/ create_name

\* ------------------------------------------------------------------------
\* cli.list_pods
\* ------------------------------------------------------------------------
list_begin ==
    /\ pc = "handler" /\ call.kind = "list"
    /\ \E r \in ConnAnswers :
         LET tr == Append(trace, Op("test_connection", NoPod, r))
         IN IF ~test_connection(r).val THEN Finish("RunPodException", RetNone, tr)
            ELSE Goto("list_pods", Append(tr, Log("Connected to RunPod API", NoPod)))
    /\ UNCHANGED <<remote, calls, call, locals>>

\* the rows of the table in the opposite order
TableRows_reversed(ps) == [i \in DOMAIN ps |-> Log("row", ps[Len(ps) + 1 - i].podId)]

\* the rows of the table list_pods logs under its header: one per pod
TableRows(ps) == [i \in DOMAIN ps |-> Log("row", ps[i].podId)]

list_get ==
    /\ pc = "list_pods"
    /\ \E r \in ListAnswers :
         LET tr == Append(trace, Op("myPods", NoPod, r))
             got == get_pods(r)
         IN IF got.exc # "none" THEN Finish(got.exc, RetNone, tr) /\ pods' = pods
            ELSE /\ pods' = got.pods
                 /\ IF Len(got.pods) = 0
                    THEN Finish("returned", RetNone, Append(tr, Log("No pods found", NoPod)))
                    ELSE Finish("returned", RetNone,
                                Append(tr, Log("Found pods", NoPod)) \o TableRows(got.pods))
    /\ UNCHANGED <<remote, calls, call, idx, pod, polls, lastLookup>>

list_pods == list_begin \/ list_get

\* ------------------------------------------------------------------------
\* Direct calls of client methods
\* ------------------------------------------------------------------------
call_get_pod_by_id ==
    /\ pc = "get_pod_by_id"
    /\ \E r \in LookupAnswers(call.podId) :
         LET got == get_pod_by_id(call.podId, r)
         IN Finish(IF got.exc = "none" THEN "returned" ELSE got.exc, got,
                   Append(trace, Op("pod", call.podId, r)))
    /\ UNCHANGED <<remote, calls, call, locals>>

call_test_connection ==
    /\ pc = "test_connection"
    /\ \E r \in ConnAnswers :
         Finish("returned", test_connection(r), Append(trace, Op("test_connection", NoPod, r)))
    /\ UNCHANGED <<remote, calls, call, locals>>

call_get_pods ==
    /\ pc = "get_pods"
    /\ \E r \in ListAnswers :
         LET got == get_pods(r)
         IN Finish(IF got.exc = "none" THEN "returned" ELSE got.exc,
                   IF got.exc = "none" THEN RetItems("list", got.pods) ELSE Raise(got.exc),
                   Append(trace, Op("myPods", NoPod, r)))
    /\ UNCHANGED <<remote, calls, call, locals>>

call_get_gpu_types ==
    /\ pc = "get_gpu_types"
    /\ \E r \in TypesAnswers :
         LET got == get_gpu_types(r)
         IN Finish(IF got.exc = "none" THEN "returned" ELSE got.exc, got,
                   Append(trace, Op("gpuTypes", NoPod, r)))
    /\ UNCHANGED <<remote, calls, call, locals>>

call_get_on_demand_price ==
    /\ pc = "get_on_demand_price"
    /\ \E r \in PriceAnswers :
         Finish("returned", get_on_demand_price(r), Append(trace, Op("gpuTypes", NoPod, r)))
    /\ UNCHANGED <<remote, calls, call, locals>>

call_get_current_bid ==
    /\ pc = "get_current_bid"
    /\ \E r \in PriceAnswers :
         Finish("returned", get_current_bid(r), Append(trace, Op("gpuTypes", NoPod, r)))
    /\ UNCHANGED <<remote, calls, call, locals>>

call_stop_instance ==
    /\ pc = "stop_instance"
    /\ \E r \in StopAnswers(call.podId) :
         Finish("returned", stop_instance(call.podId, r),
                Append(trace, Op("podStop", call.podId, r)))
    /\ UNCHANGED <<remote, calls, call, locals>>

call_destroy_instance ==
    /\ pc = "destroy_instance"
    /\ \E r \in DestroyAnswers :
         /\ Finish("returned", destroy_instance(call.podId, r),
                   Append(trace, Op("podTerminate", call.podId, r)))
         /\ remotePods' = Terminated(call.podId, r)
    /\ UNCHANGED <<hidden, calls, call, locals>>

\* a lookup of the enumeration hands back a member or raises ValueError
LookupReturn(member) ==
    IF member = "ValueError"
    THEN Finish("ValueError", Raise("ValueError"), trace)
    ELSE Finish("returned", RetItems("GPUTypeId", <<member>>), trace)

call_GPUTypeId ==
    /\ pc = "GPUTypeId"
    /\ LookupReturn(GPUTypeIdByValue(call.arg))
    /\ UNCHANGED <<remote, calls, call, locals>>

call_from_gpuDisplayName ==
    /\ pc = "from_gpuDisplayName"
    /\ LookupReturn(from_gpuDisplayName(call.arg))
    /\ UNCHANGED <<remote, calls, call, locals>>

\* main builds the configuration of the command; the YAML file of
\* --config_file defines at least one key
call_load_config ==
    /\ pc = "load_config"
    /\ Finish("returned",
              RetItems("Config", load_config(call.cliKeys, call.arg = "--config_file", call.fileKeys)),
              trace)
    /\ UNCHANGED <<remote, calls, call, locals>>

call_start_instance ==
    /\ pc = "start_instance"
    /\ \E r \in ResumeAnswers(call.podId) :
         LET got == start_instance(call.podId, call.spot, r)
         IN Finish(IF got.exc = "none" THEN "returned" ELSE got.exc, got,
                   Append(trace, Op(StartMutation(call.spot), call.podId, r)))
    /\ UNCHANGED <<remote, calls, call, locals>>

Next ==
    \/ \E c \in Calls : Invoke(c)
    \/ Exit
    \/ Provision
    \/ main
    \/ run_command
    \/ stop
    \/ destroy
    \/ start
    \/ create
    \/ create_instance
    \/ poll
    \/ list_pods
    \/ call_get_pod_by_id
    \/ call_start_instance
    \/ call_test_connection
    \/ call_get_pods
    \/ call_get_gpu_types
    \/ call_get_on_demand_price
    \/ call_get_current_bid
    \/ call_stop_instance
    \/ call_destroy_instance
    \/ call_GPUTypeId
    \/ call_from_gpuDisplayName
    \/ call_load_config

Spec == Init /\ [][Next]_vars

\* the specification with the scheduling of the creation loop: after its
\* sleep the loop always gets to its next lookup
FairSpec == Spec /\ WF_vars(poll)

\* ------------------------------------------------------------------------
\* Reading the trace
\* ------------------------------------------------------------------------
OpsNamed(names) == SelectSeq(trace, LAMBDA e : e.kind = "op" /\ e.name \in names)
PodIdsOf(events) == [i \in DOMAIN events |-> events[i].pod]
IdsOf(ps) == [i \in DOMAIN ps |-> ps[i].podId]
Logged(msg) == \E i \in DOMAIN trace : trace[i].kind = "log" /\ trace[i].name = msg
LastIs(msg) ==
    /\ trace # <<>>
    /\ trace[Len(trace)].kind = "log"
    /\ trace[Len(trace)].name = msg
    /\ \A i \in 1 .. (Len(trace) - 1) : ~(trace[i].kind = "log" /\ trace[i].name = msg)
CreationOps == OpsNamed({"podRentInterruptable", "podFindAndDeployOnDemand"})
Lookups == OpsNamed({"pod"})

\* the remote answered every request of the invocation with data, and the
\* identity query with a non-guest id
RemoteAccepted ==
    \A i \in DOMAIN trace :
        trace[i].kind = "op" =>
            /\ trace[i].resp.class = "ok"
            /\ trace[i].name = "test_connection" => trace[i].resp.status = "user"

DirectCall(kinds) == pc = "done" /\ call.level = "api" /\ call.kind \in kinds
Command(kinds) == pc = "done" /\ call.level = "cli" /\ call.kind \in kinds
IsNotFound(r) == r.class = "TransportQueryError" /\ r.code = "INTERNAL_SERVER_ERROR"

\* ------------------------------------------------------------------------
\* C1: get_pod_by_id returns None, raising nothing, when the lookup fails
\* with an INTERNAL_SERVER_ERROR query error; it raises RunPodException for
\* every other query or transport failure; it returns no pod on a failed
\* lookup.
\* ------------------------------------------------------------------------
C1_LookupFailureClasses ==
    DirectCall({"get_pod_by_id"}) =>
        LET r == trace[1].resp
        IN /\ IsNotFound(r) => outcome = "returned" /\ result = RetNone
           /\ (r.class # "ok" /\ ~IsNotFound(r)) => outcome = "RunPodException"
           /\ r.class # "ok" => result.tag # "pod"

C1_Witness ==
    /\ DirectCall({"get_pod_by_id"})
    /\ IsNotFound(trace[1].resp)
    /\ outcome = "returned"
    /\ result = RetNone

\* ------------------------------------------------------------------------
\* C2: when the remote accepts the creation, create_instance returns a
\* RunPodInstance for spot = TRUE and for spot = FALSE, having issued only
\* podRentInterruptable resp. only podFindAndDeployOnDemand, and the pod is
\* built from the answer to that mutation.
\* ------------------------------------------------------------------------
C2_CreateInstanceReturnsPod ==
    (DirectCall({"create_instance"}) /\ RemoteAccepted) =>
        /\ outcome = "returned"
        /\ result.tag = "pod"
        /\ Len(CreationOps) = 1
        /\ CreationOps[1].name =
              (IF call.spot THEN "podRentInterruptable" ELSE "podFindAndDeployOnDemand")
        /\ result.pod.podId = CreationOps[1].resp.id
        /\ result.pod.spot = (CreationOps[1].resp.status = "INTERRUPTABLE")

\* ------------------------------------------------------------------------
\* C3: the create command with --gpuTypeId "NVIDIA GeForce RTX 3080 Ti"
\* --spot --max_bid, against a remote that accepts every request, ends
\* normally with the 'Created pod' outcome and a pod with spot = TRUE and
\* gpuDisplayName = RTX_3080_TI.
\* ------------------------------------------------------------------------
C3_CreateSpotScenario ==
    (/\ Command({"create"})
     /\ call.apiKey /\ call.spot /\ call.maxBid /\ ~call.template
     /\ call.gpuSrc = "argparse"
     /\ RemoteAccepted) =>
        /\ outcome = "returned"
        /\ LastIs("Created pod")
        /\ pod.spot
        /\ pod.gpuDisplayName = RTX_3080_TI

\* ------------------------------------------------------------------------
\* C4: when the remote rejects the creation of the create command as
\* outbid, the handler ends normally (no exception leaves it), it has no
\* pod, its last word is the failed-creation report, and it issued no
\* get_pod_by_id lookup.
\* ------------------------------------------------------------------------
OutbidRejected(e) ==
    e.resp.class = "TransportQueryError" /\ Contains(e.resp.message, PhraseOutbid)

C4_OutbidCreateReported ==
    (/\ call.level = "cli" /\ call.kind = "create"
     /\ CreationOps # <<>>
     /\ OutbidRejected(CreationOps[1])) =>
        /\ pc = "done"
        /\ outcome = "returned"
        /\ pod = NonePod
        /\ LastIs("Failed to create pod")
        /\ ~Logged("Created pod")
        /\ Lookups = <<>>
        /\ polls = 0

C4_Witness ==
    /\ Command({"create"})
    /\ call.spot
    /\ CreationOps # <<>>
    /\ OutbidRejected(CreationOps[1])
    /\ outcome = "returned"
    /\ LastIs("Failed to create pod")

\* ------------------------------------------------------------------------
\* C5: no command ends with an OutbidException leaving its handler: create
\* and start (on either resume path) catch it.
\* ------------------------------------------------------------------------
C5_OutbidNeverEscapes ==
    (pc = "done" /\ call.level = "cli") => outcome # "OutbidException"

\* ------------------------------------------------------------------------
\* C6: start_instance on a pod whose resume the remote rejects with 'Cannot
\* resume a pod that is not in exited state' returns True and raises
\* nothing, with spot = TRUE (podBidResume) and with spot = FALSE
\* (podResume), at every call.
\* ------------------------------------------------------------------------
AlreadyRunning(e) ==
    e.resp.class = "TransportQueryError" /\ Contains(e.resp.message, PhraseNotExited)

C6_StartAlreadyRunning ==
    (DirectCall({"start_instance"}) /\ AlreadyRunning(trace[1])) =>
        /\ outcome = "returned"
        /\ result = RetBool(TRUE)
        /\ trace[1].name = StartMutation(call.spot)
        /\ Len(trace) = 1

C6_Witness ==
    /\ DirectCall({"start_instance"})
    /\ calls = MaxCalls
    /\ ~call.spot
    /\ AlreadyRunning(trace[1])
    /\ result = RetBool(TRUE)

\* ------------------------------------------------------------------------
\* C7: stop with --all and no --podId, on a listing of n pods, issues
\* exactly n podStop mutations, one per pod, in the order of the listing
\* get_pods returned, and logs the summary once, after the last of them.
\* ------------------------------------------------------------------------
StopOps == OpsNamed({"podStop"})
StopAll == call.level = "cli" /\ call.kind = "stop" /\ call.podId = NoPod /\ call.all
Listed == OpsNamed({"myPods"}) # <<>> /\ OpsNamed({"myPods"})[1].resp.class = "ok"

C7_StopAllInListingOrder ==
    (StopAll /\ Listed) =>
        \* the listing the handler holds is the remote's, in its order
        /\ IdsOf(pods) = SubSeq(remotePods, 1, Len(pods))
        /\ pc = "stop_each" =>
              /\ PodIdsOf(StopOps) = SubSeq(IdsOf(pods), 1, idx - 1)
              /\ ~Logged("DONE | Stopped all pods")
        /\ pc = "done" =>
              /\ outcome = "returned"
              /\ PodIdsOf(StopOps) = IdsOf(pods)
              /\ LastIs("DONE | Stopped all pods")

C7_Witness ==
    /\ StopAll /\ Listed
    /\ pc = "done"
    /\ Len(pods) = MaxPods
    /\ pods[1].podId > pods[2].podId
    /\ StopOps[1].resp.class # "ok"
    /\ PodIdsOf(StopOps) = IdsOf(pods)
    /\ LastIs("DONE | Stopped all pods")

\* ------------------------------------------------------------------------
\* C8: start and destroy with --all and no --podId fetch the caller's pods
\* and act once on every pod of the listing, then log the summary; start
\* --all issues one resume per listed pod.
\* ------------------------------------------------------------------------
ActionOps ==
    IF call.kind = "start" THEN OpsNamed({"podBidResume", "podResume"})
    ELSE OpsNamed({"podTerminate"})

C8_StartDestroyAll ==
    (/\ Command({"start", "destroy"})
     /\ call.podId = NoPod /\ call.all
     /\ Len(OpsNamed({"test_connection"})) = 2
     /\ \A i \in DOMAIN trace :
           trace[i].kind = "op" /\ trace[i].name \in {"test_connection", "myPods"} =>
               trace[i].resp.class = "ok" /\ trace[i].resp.status \notin {"guest", "None"}) =>
        /\ outcome = "returned"
        /\ Listed
        /\ PodIdsOf(ActionOps) = IdsOf(pods)
        /\ LastIs(IF call.kind = "start" THEN "DONE | Started all pods"
                  ELSE "DONE | Destroyed all pods")

\* ------------------------------------------------------------------------
\* C9: once the creation mutation gave an id, create_instance and
\* create_instance_from_template_id hand the pod back only after a
\* get_pod_by_id of that id found it: while the latest lookup is a
\* not-found the call is still in its loop, and a call that returned the
\* pod has a found lookup of the pod's id as its last request.
\* ------------------------------------------------------------------------
CreateKinds == {"create_instance", "create_instance_from_template_id"}

C9_ReturnsAfterFound ==
    /\ lastLookup = "notfound" => pc = "poll" /\ outcome = "none"
    /\ (DirectCall(CreateKinds) /\ result.tag = "pod") =>
          /\ lastLookup = "found"
          /\ Lookups # <<>>
          /\ trace[Len(trace)] = Lookups[Len(Lookups)]
          /\ Lookups[Len(Lookups)].resp.class = "ok"
          /\ Lookups[Len(Lookups)].pod = result.pod.podId
          /\ CreationOps[1].resp.id = result.pod.podId
          /\ \A i \in 1 .. (Len(Lookups) - 1) : IsNotFound(Lookups[i].resp)
    /\ (Command({"create"}) /\ Logged("Created pod")) => lastLookup = "found"

C9_Witness ==
    /\ DirectCall(CreateKinds)
    /\ result.tag = "pod"
    /\ polls >= 2
    /\ lastLookup = "found"
    /\ Len(Lookups) = polls + 1

\* ------------------------------------------------------------------------
\* C10: the creation loop has no bound on its attempts and no timeout: in
\* the loop the next lookup can always be made, the loop is left only by a
\* lookup that found the pod or raised, and once the pod is visible to
\* get_pod_by_id the call ends.
\* ------------------------------------------------------------------------
Visible == pod.podId \in Range(remotePods)

C10_UnboundedPolling ==
    /\ [](pc = "poll" => ENABLED poll)
    /\ [][(pc = "poll" /\ pc' # "poll") => lastLookup' \in {"found", "raised"}]_vars
    /\ [][(pc = "poll" /\ lastLookup' = "notfound") =>
              (pc' = "poll" /\ outcome' = "none" /\ polls' >= polls)]_vars
    /\ ((pc = "poll" /\ Visible) ~> pc # "poll")

C10_Witness ==
    /\ pc = "poll"
    /\ polls = MaxPolls
    /\ lastLookup = "notfound"
    /\ Len(Lookups) = MaxPolls
    /\ ~Visible

\* ------------------------------------------------------------------------
\* create_instance / create_instance_from_template_id as a function of the
\* answers the remote gives, in order: the outcome kind and the operations
\* issued.  kind is "pending" when the method asks for more than answers
\* holds.
\* ------------------------------------------------------------------------
RECURSIVE CreationLoop(_, _, _)
CreationLoop(podId, answers, ops) ==
    IF answers = <<>> THEN [kind |-> "pending", ops |-> ops]
    ELSE LET got == get_pod_by_id(podId, Head(answers))
         IN IF got.exc # "none" THEN [kind |-> got.exc, ops |-> Append(ops, "pod")]
            ELSE IF got.tag = "None"
                 THEN CreationLoop(podId, Tail(answers), Append(ops, "pod"))
            ELSE [kind |-> "pod", ops |-> Append(ops, "pod")]

CreationRun(template, spot, answers) ==
    LET m == CreateMethod(template, spot)
    IN IF ~FormatOk(m) THEN [kind |-> "KeyError", ops |-> <<>>]
       ELSE IF answers = <<>> THEN [kind |-> "pending", ops |-> <<>>]
       ELSE LET got == CreateResult(m, RTX_3080_TI, Head(answers))
            IN IF got.exc # "none" THEN [kind |-> got.exc, ops |-> <<m.mutation>>]
               ELSE IF got.tag = "None" THEN [kind |-> "None", ops |-> <<m.mutation>>]
               ELSE CreationLoop(got.pod.podId, Tail(answers), <<m.mutation>>)

\* the outcome kind of the invocation that has ended
OutcomeKind == IF outcome = "returned" THEN result.tag ELSE outcome

AllOps == SelectSeq(trace, LAMBDA e : e.kind = "op")
OpNames(events) == [i \in DOMAIN events |-> events[i].name]
AnswersOf(events) == [i \in DOMAIN events |-> events[i].resp]

\* ------------------------------------------------------------------------
\* C11: create_instance_from_template_id and create_instance obey the same
\* contract: with the same spot flag and the same answers of the remote, in
\* order, the two have the same kind of outcome (a pod with the same id,
\* None, or the same exception) and issue the same remote operations in the
\* same order.
\* ------------------------------------------------------------------------
C11_TemplateSameContract ==
    DirectCall(CreateKinds) =>
        LET other == CreationRun(~call.template, call.spot, AnswersOf(AllOps))
        IN /\ other.kind = OutcomeKind
           /\ other.ops = OpNames(AllOps)

\* the run of the invocation itself is the function of its answers
C11_RunIsFunction ==
    DirectCall(CreateKinds) =>
        LET own == CreationRun(call.template, call.spot, AnswersOf(AllOps))
        IN own.kind = OutcomeKind /\ own.ops = OpNames(AllOps)

\* the identity query did not show a signed-in user
NotConnected(r) == r.class # "ok" \/ r.status \in {"None", "guest"}

Handlers == {"stop", "start", "create", "destroy", "list"}

\* the remote operations of a command from its handler on: those after the
\* test_connection of run_command
HandlerOps == IF AllOps = <<>> THEN <<>> ELSE Tail(AllOps)

\* ------------------------------------------------------------------------
\* C12: every handler (stop, start, create, destroy, list) calls
\* test_connection before any other remote operation; when that reports no
\* connectivity the handler raises RunPodException, having issued no other
\* remote operation and no second test_connection.
\* ------------------------------------------------------------------------
C12_HandlerChecksConnection ==
    (call.level = "cli" /\ call.kind \in Handlers /\ AllOps # <<>>) =>
        /\ pc = "handler" <=> (outcome = "none" /\ HandlerOps = <<>>)
        /\ HandlerOps # <<>> =>
              /\ HandlerOps[1].name = "test_connection"
              /\ Len(OpsNamed({"test_connection"})) = 2
              /\ NotConnected(HandlerOps[1].resp) =>
                    /\ pc = "done"
                    /\ outcome = "RunPodException"
                    /\ Len(HandlerOps) = 1

C12_Witness ==
    /\ Command({"create"})
    /\ Len(HandlerOps) = 1
    /\ HandlerOps[1].resp = Ok(NoPod, "guest")
    /\ outcome = "RunPodException"

\* ------------------------------------------------------------------------
\* C13: test_connection returns true exactly when the identity query
\* answers with an id other than "guest"; it returns false on an empty
\* result, and false, raising nothing, on every transport or query error.
\* ------------------------------------------------------------------------
C13_TestConnection ==
    DirectCall({"test_connection"}) =>
        LET r == AllOps[1].resp
        IN /\ Len(AllOps) = 1
           /\ outcome = "returned"
           /\ result.tag = "bool"
           /\ result.val <=> (r.class = "ok" /\ r.status \notin {"None", "guest"})

C13_Witness ==
    /\ DirectCall({"test_connection"})
    /\ AllOps[1].resp = Ok(NoPod, "guest")
    /\ result = RetBool(FALSE)

\* a direct call whose single request met a transport or query fault
Faulted == pc = "done" /\ call.level = "api" /\ Len(AllOps) = 1 /\ AllOps[1].resp \in Faults

BooleanOps == {"test_connection", "stop_instance", "destroy_instance", "start_instance"}
PriceOps == {"get_on_demand_price", "get_current_bid"}

\* what the operations other than get_pods do on a fault
FaultPolicy ==
    /\ call.kind \in PriceOps => outcome = "returned" /\ result = RetNone
    /\ call.kind = "get_gpu_types" => outcome = "returned" /\ result = RetItems("list", <<>>)
    /\ call.kind \in BooleanOps => outcome = "returned" /\ result = RetBool(FALSE)
    /\ call.kind = "get_pod_by_id" => outcome = "RunPodException"

\* ------------------------------------------------------------------------
\* C14: on a transport or query fault get_pods, get_gpu_types,
\* get_on_demand_price, get_current_bid, test_connection, stop_instance,
\* destroy_instance and start_instance return their sentinel (None, false or
\* the empty list) and raise nothing; get_pod_by_id is the only operation
\* that raises a client exception for such a fault.
\* ------------------------------------------------------------------------
C14_FaultPropagation ==
    Faulted =>
        /\ FaultPolicy
        /\ call.kind = "get_pods" => outcome = "returned" /\ result = RetItems("list", <<>>)
        /\ call.kind # "get_pod_by_id" => outcome # "RunPodException"

\* C14 as the code has it: on a transport or query fault get_gpu_types,
\* get_on_demand_price, get_current_bid, test_connection, stop_instance,
\* destroy_instance and start_instance return their sentinel and raise
\* nothing, while get_pod_by_id and get_pods raise RunPodException.
C14_FaultPropagationAmended ==
    Faulted =>
        /\ FaultPolicy
        /\ call.kind = "get_pods" => outcome = "RunPodException"

C14_Witness ==
    /\ Faulted
    /\ call.kind = "get_pods"
    /\ outcome = "RunPodException"

\* a direct get_pods hands back its list: the step, and the listing it read
GetPodsReturns == pc = "get_pods" /\ pc' = "done" /\ outcome' = "returned"

\* one pod per entry of the listing, in listing order, the display name of
\* an entry the enumeration lacks read as `unparsed`
ListingReturned(unparsed) ==
    /\ IdsOf(result'.items) = remotePods
    /\ \A i \in DOMAIN remotePods :
          result'.items[i].gpuDisplayName =
              IF GpuOf(remotePods[i]) = "H100 PCIe" THEN unparsed ELSE RTX_3080_TI

\* ------------------------------------------------------------------------
\* C15: get_pods returns one RunPodInstance per pod of the remote listing,
\* in listing order; a pod whose GPU display name does not parse is still
\* returned, with gpuDisplayName set to "unknown".
\* ------------------------------------------------------------------------
C15_GetPodsListing == [][GetPodsReturns => ListingReturned("unknown")]_vars

\* C15 as the code has it: the same, with gpuDisplayName set to None for a
\* pod whose GPU display name does not parse.
C15_GetPodsListingAmended == [][GetPodsReturns => ListingReturned("None")]_vars

C15_Witness ==
    /\ DirectCall({"get_pods"})
    /\ outcome = "returned"
    /\ Len(result.items) >= 2
    /\ \E i \in DOMAIN result.items : result.items[i].gpuDisplayName = "None"

\* the lookup handed back member m
Found(m) == outcome = "returned" /\ result = RetItems("GPUTypeId", <<m>>)

\* the string is the vendor display name of a member: returned is that
\* member; it is no member's: ValueError
ByVendorString ==
    /\ \A m \in GPUTypeId : call.arg = GPUTypeValue(m) => Found(m)
    /\ call.arg \notin GPUTypeValues => outcome = "ValueError"

\* the member a string names once its spaces are underscores and its
\* letters capitals, for the strings of the model that name one
NamedMember(s) ==
    CASE s \in GPUTypeId -> s
      [] s \in {"RTX 3080 Ti", "rtx 3080 ti"} -> RTX_3080_TI
      [] s = "RTX A4000" -> "RTX_A4000"
      [] s = "A100 80GB" -> "A100_80GB"
      [] OTHER -> "ValueError"

\* ------------------------------------------------------------------------
\* C16: for every member of GPUTypeId, looking the type up by its vendor
\* display-name string with the display-name lookup (from_gpuDisplayName)
\* returns that member; for a string that is no known display name the
\* lookup fails with ValueError.
\* ------------------------------------------------------------------------
C16_LookupByDisplayName == DirectCall({"from_gpuDisplayName"}) => ByVendorString

\* C16 as the code has it: the vendor display-name strings are the values
\* of the members, and it is the lookup by value, GPUTypeId(s), that returns
\* the member for its vendor string and fails with ValueError for any other
\* string; from_gpuDisplayName matches the member names (s with its spaces
\* replaced by underscores, upper-cased) and fails with ValueError for
\* every other string, the vendor strings included.
C16_LookupByValueAmended ==
    /\ DirectCall({"GPUTypeId"}) => ByVendorString
    /\ DirectCall({"from_gpuDisplayName"}) =>
          IF NamedMember(call.arg) = "ValueError"
          THEN outcome = "ValueError"
          ELSE Found(NamedMember(call.arg))

C16_Witness ==
    /\ DirectCall({"GPUTypeId"})
    /\ call.arg = RTX_3080_TI_value
    /\ Found(RTX_3080_TI)

\* an entry of the gpuTypes listing that has a known id and all its fields
WellFormed(gpuInfo) == gpuInfo.id \in GPUTypeValues /\ gpuInfo.shape = "full"

\* the members of the well-formed entries, in the order of the listing
WellFormedOf(items) ==
    LET kept == SelectSeq(items, WellFormed)
    IN [i \in DOMAIN kept |-> CHOOSE m \in GPUTypeId : GPUTypeValue(m) = kept[i].id]

\* ------------------------------------------------------------------------
\* C17: get_gpu_types skips each entry of the listing that fails to parse
\* (unknown GPU id, missing field, missing price object) and returns the
\* well-formed entries, in order; a bad entry never aborts the listing.
\* ------------------------------------------------------------------------
C17_GpuTypesSkipsBadEntries ==
    (DirectCall({"get_gpu_types"}) /\ AllOps[1].resp.class = "ok") =>
        /\ outcome = "returned"
        /\ result = RetItems("list", WellFormedOf(AllOps[1].resp.items))

\* the part of C17 the code does keep: without an unknown id or a null
\* price object before it, an entry lacking a field is skipped
C17_MissingFieldSkipped ==
    (/\ DirectCall({"get_gpu_types"})
     /\ AllOps[1].resp.class = "ok"
     /\ \A i \in DOMAIN AllOps[1].resp.items :
           /\ AllOps[1].resp.items[i].id \in GPUTypeValues
           /\ AllOps[1].resp.items[i].shape # "null_price") =>
        /\ outcome = "returned"
        /\ result = RetItems("list", WellFormedOf(AllOps[1].resp.items))

\* ------------------------------------------------------------------------
\* C18: stop_instance returns true exactly when the remote's answer carries
\* the same pod id with desiredStatus EXITED; destroy_instance returns true
\* exactly when the remote confirms the terminate mutation; on a transport
\* or query fault both return false and raise nothing.
\* ------------------------------------------------------------------------
C18_StopDestroyResult ==
    DirectCall({"stop_instance", "destroy_instance"}) =>
        LET r == AllOps[1].resp
        IN /\ Len(AllOps) = 1
           /\ outcome = "returned"
           /\ result.tag = "bool"
           /\ call.kind = "stop_instance" =>
                 /\ AllOps[1].name = "podStop"
                 /\ result.val <=>
                       (r.class = "ok" /\ r.id = call.podId /\ r.status = "EXITED")
           /\ call.kind = "destroy_instance" =>
                 /\ AllOps[1].name = "podTerminate"
                 /\ result.val <=> r.class = "ok"

C18_Witness ==
    /\ DirectCall({"stop_instance"})
    /\ AllOps[1].resp = Ok(NoPod, "EXITED")
    /\ result = RetBool(FALSE)

\* one resume mutation, the one of the spot flag, and the bid with it when
\* spot
OneResume ==
    /\ Len(AllOps) = 1
    /\ AllOps[1].name = (IF call.spot THEN "podBidResume" ELSE "podResume")
    /\ AllOps[1].pod = call.podId
    /\ "maxBid" \in StartParams(call.spot) <=> call.spot

\* the answer carries the pod of the call, running
Resumed(r) == r.class = "ok" /\ r.id = call.podId /\ r.status = "RUNNING"

ReturnedTrue == outcome = "returned" /\ result = RetBool(TRUE)

\* ------------------------------------------------------------------------
\* C19: start_instance issues exactly one resume mutation per call, the bid
\* resume (podBidResume, carrying max_bid) when spot is true and the plain
\* resume (podResume) when spot is false, and returns true exactly when the
\* answer carries the same pod id with desiredStatus RUNNING.
\* ------------------------------------------------------------------------
C19_StartInstance ==
    DirectCall({"start_instance"}) =>
        /\ OneResume
        /\ ReturnedTrue <=> Resumed(AllOps[1].resp)

\* C19 as the code has it: the same, and true is also returned when the
\* remote rejects the resume because the pod is not in the exited state.
C19_StartInstanceAmended ==
    DirectCall({"start_instance"}) =>
        /\ OneResume
        /\ ReturnedTrue <=> (Resumed(AllOps[1].resp) \/ AlreadyRunning(AllOps[1]))

C19_Witness ==
    /\ DirectCall({"start_instance"})
    /\ call.spot
    /\ AllOps[1].name = "podBidResume"
    /\ Resumed(AllOps[1].resp)
    /\ ReturnedTrue

ConfigLoaded == pc = "done" /\ call.level = "main" /\ call.kind = "load_config"

\* ------------------------------------------------------------------------
\* C20: in the merged configuration a key given on the command line keeps
\* its command-line value when the YAML file of --config_file defines it
\* too; the file's value is used only for keys the command line did not
\* set.
\* ------------------------------------------------------------------------
C20_CliOverridesFile ==
    (ConfigLoaded /\ call.arg = "--config_file") =>
        \A k \in ConfigKeys :
            /\ k \in call.cliKeys => result.items[k] = "cli"
            /\ result.items[k] = "file" => k \notin call.cliKeys

\* what the code does instead: every key the file defines has the file's
\* value, and a key of a sub-configuration the file defines in part is lost
C20_FileOverridesCli ==
    (ConfigLoaded /\ call.arg = "--config_file") =>
        \A k \in ConfigKeys :
            /\ k \in call.fileKeys => result.items[k] = "file"
            /\ result.items[k] = "cli" =>
                  \A f \in call.fileKeys : TopKey(f) # TopKey(k)

\* a command line has been dealt with
CommandLine == pc = "done" /\ call.level = "cli"

\* run_command found no connectivity: exit status 1 after the identity
\* query alone
ConnectivityFailureExits ==
    (CommandLine /\ AllOps # <<>> /\ NotConnected(AllOps[1].resp)) =>
        /\ outcome = "exit(1)"
        /\ Len(AllOps) = 1

\* ------------------------------------------------------------------------
\* C21: the process exits with status 1 when connectivity to the service
\* fails, before any operation of the command is issued, and when no
\* recognized command is dispatched; for an unrecognized command the help
\* text is printed and no remote request is made.
\* ------------------------------------------------------------------------
C21_ExitCodeOne ==
    /\ ConnectivityFailureExits
    /\ (CommandLine /\ call.kind \notin commands) =>
          /\ outcome = "exit(1)"
          /\ Logged("print_help")
          /\ AllOps = <<>>

\* C21 as the code has it: status 1 on a connectivity failure and when the
\* command line names no command, the help text printed and no request
\* made; a command word that is none of the parser's choices ends in the
\* parser's usage error with status 2, no help text and no request.
C21_ExitCodeAmended ==
    /\ ConnectivityFailureExits
    /\ (CommandLine /\ call.kind = NoCommand) =>
          /\ outcome = "exit(1)"
          /\ Logged("print_help")
          /\ AllOps = <<>>
    /\ (CommandLine /\ call.kind \in UnknownWords) =>
          /\ outcome = "exit(2)"
          /\ ~Logged("print_help")
          /\ AllOps = <<>>

C21_Witness ==
    /\ CommandLine
    /\ call.kind \in UnknownWords
    /\ outcome = "exit(2)"

\* list_pods has its listing and ends; the rows of the table it logged
ListPodsEnds == pc = "list_pods" /\ pc' = "done" /\ outcome' = "returned"
Rows(tr) == SelectSeq(tr, LAMBDA e : e.kind = "log" /\ e.name = "row")
LoggedIn(tr, msg) == \E i \in DOMAIN tr : tr[i].kind = "log" /\ tr[i].name = msg

\* ------------------------------------------------------------------------
\* C22: list_pods on an account with no pod logs "No pods found" and builds
\* no table; with one pod or more it renders one table row per pod, in
\* listing order.
\* ------------------------------------------------------------------------
C22_ListPodsTable ==
    [][ListPodsEnds =>
          IF remotePods = <<>>
          THEN /\ LoggedIn(trace', "No pods found")
               /\ ~LoggedIn(trace', "Found pods")
               /\ Rows(trace') = <<>>
          ELSE /\ ~LoggedIn(trace', "No pods found")
               /\ LoggedIn(trace', "Found pods")
               /\ PodIdsOf(Rows(trace')) = remotePods]_vars

C22_Witness ==
    /\ Command({"list"})
    /\ outcome = "returned"
    /\ Len(Rows(trace)) >= 2

C22_WitnessEmpty ==
    /\ Command({"list"})
    /\ outcome = "returned"
    /\ Logged("No pods found")

\* a creation, direct or of the create command, whose mutation the remote
\* accepted; the pod it created
Creating == call.kind \in CreateKinds \cup {"create"}
Created == Creating /\ CreationOps # <<>> /\ CreationOps[1].resp.class = "ok"
CreatedPod == CreationOps[1].resp.id

\* the last lookup of the creation loop raised
PollingRaised == pc = "done" /\ Created /\ lastLookup = "raised"

\* ------------------------------------------------------------------------
\* C23: create_instance never rolls a creation back: once the creation
\* mutation has succeeded, a polling get_pod_by_id that raises
\* RunPodException (any fault but the internal server error) lets the
\* exception reach the caller; no stop or terminate mutation is issued and
\* the pod created on the remote stays there, without being returned.
\* ------------------------------------------------------------------------
C23_NoRollback ==
    /\ Created =>
          /\ OpsNamed({"podStop", "podTerminate"}) = <<>>
          /\ CreatedPod \in hidden \cup Range(remotePods)
    /\ PollingRaised =>
          /\ Lookups # <<>>
          /\ ~IsNotFound(Lookups[Len(Lookups)].resp)
          /\ Lookups[Len(Lookups)].resp.class # "ok"
          /\ outcome = "RunPodException"
          /\ result.tag # "pod"
          /\ ~Logged("Created pod")

C23_Witness ==
    /\ PollingRaised
    /\ polls >= 1
    /\ outcome = "RunPodException"
    /\ CreatedPod \in Range(remotePods)

\* stop --all or destroy --all has ended with the listing in hand
AllOfListing ==
    /\ Command({"stop", "destroy"})
    /\ call.podId = NoPod /\ call.all
    /\ Listed

\* the mutations of the loop, its per-pod messages and its summary
LoopOps == OpsNamed({IF call.kind = "stop" THEN "podStop" ELSE "podTerminate"})
PerPodLogs ==
    SelectSeq(trace, LAMBDA e : e.kind = "log" /\
                 e.name = (IF call.kind = "stop" THEN "Stopped pod" ELSE "Destroyed pod"))
Summary == IF call.kind = "stop" THEN "DONE | Stopped all pods" ELSE "DONE | Destroyed all pods"

\* the action on the pod of position i failed: stop_instance or
\* destroy_instance gave false
ActionFailed(i) ==
    \/ LoopOps[i].resp.class # "ok"
    \/ call.kind = "stop" /\ LoopOps[i].resp.status # "EXITED"

\* ------------------------------------------------------------------------
\* C24: in stop --all and destroy --all a failed action on one pod does not
\* end the iteration: the handler still issues the mutation for every
\* later pod of the listing and logs the per-pod messages and the summary.
\* ------------------------------------------------------------------------
C24_FailureDoesNotStopLoop ==
    AllOfListing =>
        /\ outcome = "returned"
        /\ PodIdsOf(LoopOps) = IdsOf(pods)
        /\ PodIdsOf(PerPodLogs) = IdsOf(pods)
        /\ LastIs(Summary)

C24_Witness ==
    /\ AllOfListing
    /\ call.kind = "destroy"
    /\ Len(pods) >= 2
    /\ ActionFailed(1)
    /\ Len(LoopOps) = Len(pods)
    /\ LastIs(Summary)

\* a finished start, stop or destroy command that was given both --podId and
\* --all and whose handler found the service connected
BothGiven ==
    /\ Command({"start", "stop", "destroy"})
    /\ call.podId # NoPod /\ call.all
    /\ Len(AllOps) >= 2
    /\ ~NotConnected(AllOps[1].resp) /\ ~NotConnected(AllOps[2].resp)

\* the mutation each command issues on a pod
ActionOf(kind) ==
    IF kind = "stop" THEN {"podStop"}
    ELSE IF kind = "destroy" THEN {"podTerminate"}
    ELSE {"podResume", "podBidResume"}

Actions == OpsNamed(ActionOf(call.kind))

\* every remote operation of the command past the connectivity tests is on
\* the named pod, and the listing is never requested
OnlyNamedPod ==
    /\ OpsNamed({"myPods"}) = <<>>
    /\ \A i \in DOMAIN AllOps : AllOps[i].pod \in {NoPod, call.podId}
    /\ \A i \in DOMAIN AllOps :
           AllOps[i].name \in ActionOf(call.kind) \cup {"pod", "test_connection"}
    /\ \A i \in DOMAIN AllOps : AllOps[i].name # "test_connection" => AllOps[i].pod = call.podId

\* the lookup of start found the named pod
LookupFound ==
    /\ Len(Lookups) = 1
    /\ get_pod_by_id(call.podId, Lookups[1].resp).exc = "none"
    /\ get_pod_by_id(call.podId, Lookups[1].resp).tag # "None"

\* ------------------------------------------------------------------------
\* C25: when both --podId and --all are given to start, stop or destroy, the
\* pod id takes precedence: exactly one action is issued, on the named pod,
\* get_pods is not called and no other pod is touched.
\* ------------------------------------------------------------------------
C25_PodIdPrecedence ==
    BothGiven => OnlyNamedPod /\ Len(Actions) = 1

\* C25 as the code has it: the pod id takes precedence, get_pods is not
\* called and no other pod is touched; stop and destroy issue exactly one
\* action on the named pod, and start issues exactly one when its lookup
\* finds the pod and none when the lookup reports not-found or raises.
C25_PodIdPrecedenceAmended ==
    BothGiven =>
        /\ OnlyNamedPod
        /\ call.kind \in {"stop", "destroy"} => Len(Actions) = 1 /\ Lookups = <<>>
        /\ call.kind = "start" =>
               /\ Len(Lookups) = 1
               /\ Len(Actions) = (IF LookupFound THEN 1 ELSE 0)

C25_Witness ==
    /\ BothGiven /\ call.kind = "destroy"
    /\ Len(remotePods) >= 1
    /\ Len(Actions) = 1 /\ Actions[1].pod = call.podId
    /\ Actions[1].resp.class = "ok"

C25_WitnessStart ==
    /\ BothGiven /\ call.kind = "start" /\ LookupFound
    /\ Len(Actions) = 1 /\ Actions[1].pod = call.podId

ResumeOps == OpsNamed({"podResume", "podBidResume"})

\* a finished start command with --podId whose lookup of the pod was answered
\* as not found
StartNotFound ==
    /\ Command({"start"}) /\ call.podId # NoPod
    /\ Len(Lookups) = 1
    /\ Lookups[1].pod = call.podId
    /\ IsNotFound(Lookups[1].resp)

\* ------------------------------------------------------------------------
\* C26: the start command with --podId naming a pod that get_pod_by_id
\* reports as not found issues no resume mutation: it logs the not-found
\* error and returns after the lookup.
\* ------------------------------------------------------------------------
C26_StartNotFound ==
    StartNotFound =>
        /\ ResumeOps = <<>>
        /\ AllOps[Len(AllOps)].name = "pod"
        /\ LastIs("Pod not found")
        /\ trace[Len(trace)].pod = call.podId
        /\ ~Logged("Started pod")
        /\ outcome = "returned"

C26_Witness ==
    /\ StartNotFound
    /\ call.podId \notin Range(remotePods)
    /\ get_pod_by_id(call.podId, Lookups[1].resp) = RetNone
    /\ LastIs("Pod not found")

\* the pod the lookup of a start command handed back
FetchedPod == get_pod_by_id(call.podId, Lookups[1].resp).pod

\* ------------------------------------------------------------------------
\* C27: in the start command the resume operation issued for a pod is
\* selected only by the command-line --spot flag: the spot attribute of the
\* pod fetched from the remote never influences whether bid-resume or plain
\* resume is issued, so without --spot every pod (a spot pod included) is
\* resumed with the plain resume.
\* ------------------------------------------------------------------------
C27_ResumeByFlagOnly ==
    Command({"start"}) =>
        \A i \in DOMAIN ResumeOps :
            /\ ResumeOps[i].name = (IF call.spot THEN "podBidResume" ELSE "podResume")
            /\ ResumeOps[i].name = StartMutation(call.spot)

C27_Witness ==
    /\ Command({"start"}) /\ ~call.spot
    /\ Len(Lookups) = 1 /\ LookupFound
    /\ FetchedPod.spot
    /\ Len(ResumeOps) = 1
    /\ ResumeOps[1].name = "podResume" /\ ResumeOps[1].pod = FetchedPod.podId

\* a finished create command whose configuration holds no max_bid
NoMaxBid == Command({"create"}) /\ ~call.maxBid

\* ------------------------------------------------------------------------
\* C28: the create command issues no creation mutation when max_bid is
\* absent from the configuration, for both spot and on-demand requests: the
\* handler returns before calling create_instance or
\* create_instance_from_template_id.
\* ------------------------------------------------------------------------
C28_NoMaxBidReturns ==
    (NoMaxBid /\ RemoteAccepted) =>
        /\ CreationOps = <<>>
        /\ outcome = "returned"
        /\ LastIs("No --max_bid specified")

\* the part of C28 the code keeps: without max_bid no creation mutation and
\* no lookup of a created pod is issued, with or without --spot, with or
\* without a template; the handler returns when it reaches the max_bid test
\* and raises when it does not
C28_NoCreationWithoutMaxBid ==
    NoMaxBid =>
        /\ CreationOps = <<>> /\ Lookups = <<>>
        /\ ~Logged("Created pod")
        /\ outcome \in {"returned", "AttributeError", "RunPodException", "ValueError", "exit(1)"}
        /\ outcome = "returned" => LastIs("No --max_bid specified")
        /\ (RemoteAccepted /\ call.apiKey) =>
               (outcome = "returned" <=> create_resolve(call) = "return"
                                          /\ (call.podName \/ HasStrMethods(call.gpuSrc)))

\* the handler reached the max_bid test and returned
C28_ReturnedAtTest ==
    /\ NoMaxBid /\ RemoteAccepted /\ call.spot
    /\ outcome = "returned" /\ LastIs("No --max_bid specified")

\* the handler left with AttributeError before the max_bid test
C28_RaisedBeforeTest ==
    /\ NoMaxBid /\ RemoteAccepted /\ call.apiKey
    /\ call.cloudSrc = "argparse" /\ call.gpuSrc = "argparse"
    /\ outcome = "AttributeError"

\* the invocation is a start, stop or destroy command given neither --podId
\* nor --all
NeitherGiven ==
    /\ call.level = "cli" /\ call.kind \in {"start", "stop", "destroy"}
    /\ call.podId = NoPod /\ ~call.all

\* a step of the handler of the command (not of run_command, and not of the
\* remote on its own)
HandlerStep == pc \notin {"idle", "main", "run_command", "done"} /\ pc' # pc

\* the handler saw the service connected
HandlerConnected(tr) ==
    LET ops == SelectSeq(tr, LAMBDA e : e.kind = "op")
    IN Len(ops) >= 2 /\ ~NotConnected(ops[2].resp)

\* ------------------------------------------------------------------------
\* C29: with neither --podId nor --all, each of start, stop and destroy
\* issues no remote operation other than the connectivity test, changes no
\* pod, logs an error and returns without raising.
\* ------------------------------------------------------------------------
C29_NeitherFlag ==
    [][(NeitherGiven /\ HandlerStep) =>
          /\ pc' = "done"
          /\ remotePods' = remotePods /\ hidden' = hidden
          /\ \A i \in DOMAIN trace' :
                 trace'[i].kind = "op" => trace'[i].name = "test_connection"
          /\ HandlerConnected(trace') =>
                 /\ outcome' = "returned"
                 /\ trace'[Len(trace')] = Log("No --podId or --all specified", NoPod)
                 /\ Len(SelectSeq(trace', LAMBDA e : e.kind = "op")) = 2]_vars

C29_Witness ==
    /\ Command({"start"}) /\ NeitherGiven
    /\ HandlerConnected(trace)
    /\ Len(remotePods) >= 1
    /\ outcome = "returned"
    /\ LastIs("No --podId or --all specified")

C29_WitnessStop ==
    /\ Command({"stop"}) /\ NeitherGiven
    /\ HandlerConnected(trace)
    /\ Len(remotePods) >= 1
    /\ LastIs("No --podId or --all specified")

C29_WitnessDestroy ==
    /\ Command({"destroy"}) /\ NeitherGiven
    /\ HandlerConnected(trace)
    /\ Len(remotePods) >= 1
    /\ LastIs("No --podId or --all specified")

\* a finished command line naming a command, with no API key in the
\* configuration
NoApiKey == Command(commands) /\ ~call.apiKey

\* ------------------------------------------------------------------------
\* C30: run_command makes no remote request when the configuration holds no
\* API key: it raises ValueError before the transport is built, before
\* test_connection and before the command handler runs.
\* ------------------------------------------------------------------------
C30_NoApiKey ==
    /\ NoApiKey =>
           /\ outcome = "ValueError"
           /\ AllOps = <<>>
           /\ trace = <<>>
    /\ (call.level = "cli" /\ call.kind \in commands /\ ~call.apiKey) =>
           pc \in {"idle", "main", "run_command", "done"}

C30_Witness ==
    /\ NoApiKey /\ call.kind = "destroy" /\ call.all
    /\ Len(remotePods) >= 1
    /\ outcome = "ValueError"
    /\ trace = <<>>

====
